---- MODULE Spec2Model ----
(***************************************************************************)
(* Watch-together synchronisation core of royyanbach/vid.                  *)
(*                                                                         *)
(*   server  (src/unnamed/part_000): room registry, presence, roles, the   *)
(*           authoritative timeline and the 2s re-broadcast timer.         *)
(*   client  (src/src/routes/room.$id.tsx): state application, clock skew, *)
(*           drift correction.                                             *)
(*   mesh    (src/src/components/VideoStrip.tsx): camera acquisition,      *)
(*           peer links, offer/answer collision handling, teardown.        *)
(*                                                                         *)
(* Fixed point.  Wall-clock times are integers in milliseconds.  A         *)
(* playback rate r is the integer r * DefaultRate (DefaultRate = 20 stands *)
(* for the rate 1, so one unit is 0.05).  A media position of x seconds is *)
(* the integer x * Second with Second = 1000 * DefaultRate, which makes    *)
(* elapsedMs / 1000 * playbackRate the exact product elapsedMs * rate.     *)
(*                                                                         *)
(* An optional JavaScript value (undefined | v) is the set {} or {v}.      *)
(***************************************************************************)
EXTENDS Integers, Sequences, FiniteSets, TLC

VARIABLES
    \* ---- server process (src/unnamed/part_000)
    rooms,      \* const rooms = new Map<string, Room>()
    conn,       \* per connection: open/closed, joinedRoomId, user (closure variables)
    sioRooms,   \* socket.io room membership (socket.join), by room id
    timers,     \* the running setInterval timers: {[h, roomId, due]}
    now,        \* the server's Date.now()
    out,        \* what the last step emitted, in order
    msgs,       \* history: messages handled since the initial state
    joinOrder,  \* history: room id -> its participants in the order they joined it
    \* ---- the channel to the one client page that is modelled
    attached,   \* {} or {socket id} the modelled page is connected as
    inbox,      \* server -> page messages in flight (FIFO)
    lastMut,    \* history: room id -> server time of its last timeline mutation
    lostSince,  \* history: a best-effort broadcast to the page was lost since then
    held,       \* history: the timelines the page's room has held since the page
                \* joined it, in order, each once per run of equal ones
    observed,   \* history: the timelines the page has taken, likewise
    \* ---- the modelled client page (src/src/routes/room.$id.tsx)
    page,       \* its refs and state, its video element, and the api calls of
                \* its last step
    \* ---- the video strips of two clients (src/src/components/VideoStrip.tsx)
    comp,       \* per client: the mounted component, its camera and its timers
    pcs,        \* per client: peersRef, {} or {the record of the link to the other}
    wire,       \* per client: signaling messages on their way to it (FIFO)
    rtcRoster,  \* the relay: the clients that have sent rtc:join
    glare,      \* history: both clients had an offer in flight at the same time
    \* ---- the link sets of three clients (VideoStrip.tsx, discovery and teardown)
    links,      \* per client: socket, the myId prop its handlers hold, peersRef
                \* as a map from peer id to link record, and the peerIds state
    lwire,      \* per client: discovery messages on their way to it (FIFO)
    lroster,    \* the relay: the clients whose rtc:join it has handled
    \* ---- one video sender of one link (VideoStrip.tsx, adaptive bitrate)
    enc,        \* sender.getParameters().encodings[0]
    mon         \* history of the bitrate monitor: its last tick

serverVars == <<rooms, conn, sioRooms, timers, now, out, msgs, joinOrder>>
netVars    == <<attached, inbox, lastMut, lostSince, held, observed, page>>
stripVars  == <<links, lwire, lroster, enc, mon>>
meshVars   == <<comp, pcs, wire, rtcRoster, glare, stripVars>>
vars       == <<serverVars, netVars, meshVars>>

(***************************************************************************)
(* Optional values and insertion-ordered maps                              *)
(***************************************************************************)
None      == {}
Some(x)   == {x}
The(o)    == CHOOSE v \in o : TRUE
\* JavaScript truthiness of an optional string: neither undefined nor ''
Truthy(o) == o # {} /\ The(o) # ""

Min(a, b) == IF a < b THEN a ELSE b
Max(a, b) == IF a > b THEN a ELSE b

Range(f)  == {f[i] : i \in DOMAIN f}

\* Map.prototype.set on a map kept as the sequence of its values in insertion
\* order: an existing key keeps its position, a new key goes last.
MapSet(users, u) ==
    IF \E i \in DOMAIN users : users[i].id = u.id
    THEN [i \in DOMAIN users |-> IF users[i].id = u.id THEN u ELSE users[i]]
    ELSE Append(users, u)

\* Map.prototype.delete
MapDelete(users, id) == SelectSeq(users, LAMBDA u : u.id # id)

MapHas(users, id) == \E i \in DOMAIN users : users[i].id = id

(***************************************************************************)
(* Program constants                                                       *)
(***************************************************************************)
DefaultRate == 20      \* playbackRate: 1
HeartbeatMs == 2000    \* setInterval(..., 2000)
Second      == 1000 * DefaultRate
MinRate     == DefaultRate \div 4     \* 0.25
MaxRate     == 4 * DefaultRate        \* 4

(***************************************************************************)
(* Bounds of the model                                                     *)
(***************************************************************************)
MaxTicks == 4          \* the clock advances at most this many times
MaxMsgs  == 3          \* messages handled after the initial state

TickMs   == HeartbeatMs \div 2
MaxNow   == MaxTicks * TickMs

Sockets  == {"a", "b", "c"}
RoomIds  == {"r1", "r2"}
Ord(x)   == CASE x = "a" -> 1 [] x = "b" -> 2 [] x = "c" -> 3
              [] x = "r1" -> 1 [] x = "r2" -> 2

(***************************************************************************)
(* Timeline: the target position and the four mutations                    *)
(***************************************************************************)
FrozenTargetTime(state, nowMs) == state.baseMediaTime

computeTargetTime(state, nowMs) ==
    LET elapsed == nowMs - state.baseServerTime
        add     == IF state.isPlaying THEN elapsed * state.playbackRate ELSE 0
    IN  state.baseMediaTime + add

DefaultState(t) ==
    [isPlaying |-> FALSE, baseMediaTime |-> 0, baseServerTime |-> t,
     playbackRate |-> DefaultRate, src |-> None]

\* socket.on('play')
PlayState(state, t) ==
    LET elapsed == t - state.baseServerTime
        current == state.baseMediaTime
                   + (IF state.isPlaying THEN elapsed * state.playbackRate ELSE 0)
    IN  [state EXCEPT !.isPlaying = TRUE, !.baseMediaTime = current,
                      !.baseServerTime = t]

\* socket.on('pause'); atMediaTime is {} or {position}
PauseStateKeepsPlaying(state, t, atMediaTime) ==
    [state EXCEPT !.baseServerTime = t,
                  !.baseMediaTime = IF atMediaTime # None THEN The(atMediaTime)
                                    ELSE computeTargetTime(state, t)]

PauseState(state, t, atMediaTime) ==
    LET elapsed  == t - state.baseServerTime
        computed == state.baseMediaTime
                    + (IF state.isPlaying THEN elapsed * state.playbackRate ELSE 0)
    IN  [state EXCEPT !.isPlaying = FALSE, !.baseServerTime = t,
                      !.baseMediaTime = IF atMediaTime # None THEN The(atMediaTime)
                                        ELSE computed]

\* socket.on('seek'); toMediaTime is {} or {position}
SeekState(state, t, toMediaTime) ==
    [state EXCEPT !.baseMediaTime =
                      Max(0, IF toMediaTime # None THEN The(toMediaTime) ELSE 0),
                  !.baseServerTime = t]

RateStateUnclamped(state, t, playbackRate) ==
    LET elapsed == t - state.baseServerTime
        current == state.baseMediaTime
                   + (IF state.isPlaying THEN elapsed * state.playbackRate ELSE 0)
    IN  [state EXCEPT !.baseMediaTime = current, !.baseServerTime = t,
                      !.playbackRate = IF playbackRate # None THEN The(playbackRate)
                                       ELSE DefaultRate]

RateStateNoRebase(state, t, playbackRate) ==
    [state EXCEPT !.playbackRate =
                      Max(MinRate, Min(MaxRate,
                          IF playbackRate # None THEN The(playbackRate)
                          ELSE DefaultRate))]

\* socket.on('rate'); playbackRate is {} or {rate}
RateState(state, t, playbackRate) ==
    LET elapsed == t - state.baseServerTime
        current == state.baseMediaTime
                   + (IF state.isPlaying THEN elapsed * state.playbackRate ELSE 0)
    IN  [state EXCEPT !.baseMediaTime = current, !.baseServerTime = t,
                      !.playbackRate =
                          Max(MinRate, Min(MaxRate,
                              IF playbackRate # None THEN The(playbackRate)
                              ELSE DefaultRate))]

(***************************************************************************)
(* Registry                                                                *)
(***************************************************************************)
NewRoom(t) ==
    [state |-> DefaultState(t), users |-> <<>>, hostSocketId |-> None,
     heartbeat |-> None]

getOrResetRoom(reg, roomId) ==
    IF roomId \in DOMAIN reg
    THEN [reg EXCEPT ![roomId].state.baseMediaTime = 0,
                     ![roomId].state.baseServerTime = now]
    ELSE [r \in DOMAIN reg \cup {roomId} |->
              IF r = roomId THEN NewRoom(now) ELSE reg[r]]

\* getOrCreateRoom: the registry after the call
getOrCreateRoom(reg, roomId) ==
    IF roomId \in DOMAIN reg THEN reg
    ELSE [r \in DOMAIN reg \cup {roomId} |->
              IF r = roomId THEN NewRoom(now) ELSE reg[r]]

RegDelete(reg, roomId) == [r \in DOMAIN reg \ {roomId} |-> reg[r]]

LastUser(users) == users[Len(users)]

\* room.users.values().next().value
FirstUser(users) == users[1]

Hosts(room) == {i \in DOMAIN room.users : room.users[i].role = "host"}

(***************************************************************************)
(* Emissions                                                               *)
(***************************************************************************)
\* by names the handler that emits (an observation, not a field on the wire)
ToSocket(by, s, ev, data) ==      \* socket.emit(ev, data)
    [by |-> by, ev |-> ev, kind |-> "socket", to |-> s, volatile |-> FALSE,
     data |-> data]
ToRoom(by, r, ev, data) ==        \* io.to(r).emit(ev, data)
    [by |-> by, ev |-> ev, kind |-> "room", to |-> r, volatile |-> FALSE,
     data |-> data]
ToRoomVolatile(by, r, ev, data) ==   \* io.volatile.to(r).emit(ev, data)
    [by |-> by, ev |-> ev, kind |-> "room", to |-> r, volatile |-> TRUE,
     data |-> data]

Recipients(e, members) == IF e.kind = "socket" THEN {e.to} ELSE members[e.to]

\* The emissions of one handler that reach the modelled page: those addressed to
\* it, in order; a volatile one is dropped when lost.
Delivered(emits, members, lost) ==
    IF attached = None THEN <<>>
    ELSE SelectSeq(emits, LAMBDA e : /\ The(attached) \in Recipients(e, members)
                                     /\ e.ev \in {"state", "presence", "pong"}
                                     /\ ~(e.volatile /\ lost))

\* a sequence with v at its end, unless v is its last element already
Noted(seq, v) == IF seq # <<>> /\ seq[Len(seq)] = v THEN seq ELSE Append(seq, v)

\* the history of the room the page's connection is bound to, after a handler:
\* was and is are the connection's joinedRoomId before and after it
Record(h, was, is, reg) ==
    IF is = None \/ The(is) \notin DOMAIN reg THEN h
    ELSE IF was # is THEN <<reg[The(is)].state>>
    ELSE Noted(h, reg[The(is)].state)

\* A handler's effect on the channel and on the history variables.
Channel(emits, members, lost, mutated) ==
    /\ inbox' = inbox \o Delivered(emits, members, lost)
    /\ lastMut' = [r \in RoomIds |-> IF r \in mutated THEN now ELSE lastMut[r]]
    /\ lostSince' = IF mutated # {} THEN lost ELSE lostSince
    /\ held' = IF attached = None THEN held
               ELSE Record(held, conn[The(attached)].joinedRoomId,
                           conn'[The(attached)].joinedRoomId, rooms')
    /\ UNCHANGED <<attached, observed, page, meshVars>>

\* lost may be chosen only where it makes a difference
CanLose(emits, members, lost) ==
    lost => \E i \in DOMAIN emits :
                /\ emits[i].volatile /\ attached # None
                /\ The(attached) \in Recipients(emits[i], members)

(***************************************************************************)
(* The client page (src/src/routes/room.$id.tsx) and its video element     *)
(***************************************************************************)
\* Rates of the video element are kept in units fine enough for the controller's
\* gains: RateScale of them make one unit of the server's playbackRate.
RateScale == 1000 * Second
One       == DefaultRate * RateScale            \* playback rate 1.0
FineRate(r) == r * RateScale                    \* a timeline's rate, in fine units

\* performance.now() of the page reads the model's clock
perfNow == now

\* Date.now() of the page: the browser's wall clock is clockOffset behind the
\* server's
dateNow(pg) == now - pg.clockOffset

\* skewEmaRef is kept in units of 1 / SkewScale ms (the code keeps a double)
SkewScale == 1000

\* the video element of the Player and the page around it, as mounted
NewVideo ==
    [currentTime |-> 0, paused |-> TRUE, playbackRate |-> One,
     seeking |-> FALSE, readyState |-> 4, currentSrc |-> TRUE,
     allowed |-> TRUE]           \* the browser lets play() start playback

NewPage(id) ==
    [stateRef |-> None, users |-> <<>>, myId |-> id,
     socketIsHost |-> FALSE,     \* isHost as the socket effect's closure holds it
     driftIsHost |-> FALSE,      \* isHost as the drift effect's closure holds it
     initialSrc |-> TRUE,        \* localStorage holds a source for the room
     player |-> TRUE,            \* the Player is rendered: videoRef.current is
                                 \* its video element, which carries _playerApi
     driftLoop |-> TRUE,         \* the drift effect has started its loop
     autoLoop |-> TRUE,          \* the autoplay effect has started tryAuto
     fired |-> FALSE,            \* history: tryAuto has called play()
     emitOn |-> FALSE,           \* the host effect has attached its listeners
     seekTimer |-> None,         \* seekTimer and rateTimer of the host effect:
     rateTimer |-> None,         \* the due time of the timeout they name
     pendingSeek |-> {},         \* due times of the timeouts that will emit seek
     pendingRate |-> {},         \* and rate
     seekEvt |-> None,           \* history: time of the last seeked event and
     rateEvt |-> None,           \* ratechange event not yet followed by a message
     sent |-> {},                \* observation: socket emits of the last step
     unmounted |-> FALSE,        \* the page has been left
     video |-> NewVideo,
     integral |-> 0, lastTime |-> 0,
     lastSeekAt |-> 0, lastPlayReq |-> 0, lastPauseReq |-> 0,
     rtt |-> 200, skewEma |-> 0, armed |-> FALSE, lastCheck |-> 0,
     clockOffset |-> 0,          \* server's Date.now() minus the browser's
     calls |-> {}]               \* observation: player api calls of the last step

NoPage == [NewPage("") EXCEPT !.video.currentSrc = FALSE]

\* const isHost = useMemo(() => users.some(u => u.id === myId && u.role === 'host'))
IsHost(pg) ==
    \E i \in DOMAIN pg.users :
        pg.users[i].id = pg.myId /\ pg.users[i].role = "host"

Abs(x) == IF x < 0 THEN 0 - x ELSE x

\* _playerApi of the Player (src/unnamed/part_005); by names the caller
ApiSeek(pg, to, by) ==
    [pg EXCEPT !.video.currentTime = Max(0, to), !.video.seeking = TRUE,
               !.calls = @ \cup {[api |-> "seek", by |-> by, arg |-> Max(0, to)]}]
ApiSetRate(pg, r, by) ==
    [pg EXCEPT !.video.playbackRate = Max(One \div 4, Min(4 * One, r)),
               !.calls = @ \cup {[api |-> "setRate", by |-> by, arg |-> r]}]
ApiPlay(pg, by) ==
    [pg EXCEPT !.video.paused = IF pg.video.allowed THEN FALSE ELSE @,
               !.calls = @ \cup {[api |-> "play", by |-> by, arg |-> 0]}]
ApiPause(pg, by) ==
    [pg EXCEPT !.video.paused = TRUE,
               !.calls = @ \cup {[api |-> "pause", by |-> by, arg |-> 0]}]

seekThresholdFixed(pg) == (12 * Second) \div 10

\* const seekThreshold = Math.max(1.2, rttRef.current / 250), in media units
seekThreshold(pg) == Max((12 * Second) \div 10, (pg.rtt * Second) \div 250)

ensurePlaybackState(pg, desiredPlaying, by) ==
    LET video    == pg.video
        windowMs == Max(300, Min(1600, pg.rtt * 2 + 200))
    IN  IF ~pg.player THEN pg
        ELSE IF ~video.currentSrc THEN pg
        ELSE IF video.seeking \/ video.readyState < 2 THEN pg
        ELSE IF desiredPlaying
        THEN IF ~video.paused THEN pg
             ELSE IF perfNow - pg.lastSeekAt < 250 THEN pg
             ELSE IF perfNow - pg.lastPauseReq < windowMs THEN pg
             ELSE IF perfNow - pg.lastPlayReq < windowMs THEN pg
             ELSE ApiPlay([pg EXCEPT !.lastPlayReq = perfNow], by)
        ELSE IF video.paused THEN pg
             ELSE IF perfNow - pg.lastPlayReq < windowMs THEN pg
             ELSE IF perfNow - pg.lastPauseReq < 300 THEN pg
             ELSE ApiPause([pg EXCEPT !.lastPauseReq = perfNow], by)

\* s.playbackRate || 1, in fine units
Baseline(s) == IF s.playbackRate = 0 THEN One ELSE FineRate(s.playbackRate)

HardSeekKeepsIntegral(pg, target, by) ==
    [ApiSeek(pg, target, by) EXCEPT !.lastSeekAt = perfNow]

\* the large-error branch of the state handlers and of the drift loop:
\* api.seek(target); piRef.current.integral = 0; lastSeekAtRef.current = now
HardSeek(pg, target, by) ==
    [ApiSeek(pg, target, by) EXCEPT !.integral = 0, !.lastSeekAt = perfNow]

applyStateToPlayer(pg, s) ==
    IF pg.socketIsHost THEN pg
    ELSE IF ~pg.player THEN pg
    ELSE LET target == computeTargetTime(s, dateNow(pg) + pg.skewEma \div SkewScale)
             drift  == pg.video.currentTime - target
             pg1    == IF Abs(drift) > seekThreshold(pg)
                       THEN HardSeek(pg, target, "state")
                       ELSE pg
             pg2    == ensurePlaybackState(pg1, s.isPlaying, "state")
             pg3    == IF s.isPlaying THEN [pg2 EXCEPT !.armed = TRUE] ELSE pg2
         IN  IF Abs(pg3.video.playbackRate - Baseline(s)) > One \div 1000
             THEN ApiSetRate(pg3, Baseline(s), "state")
             ELSE pg3

\* the render that follows setState: the Player is there when effectiveSrc
\* (state?.src || initialSrc) is set, with a new video element when it was not
\* there before; no effect of the page depends on it
Render(pg) ==
    LET effectiveSrc == (pg.stateRef # None /\ Truthy(The(pg.stateRef).src))
                        \/ pg.initialSrc
    IN  IF effectiveSrc = pg.player THEN pg
        ELSE [pg EXCEPT !.player = effectiveSrc,
                        !.video = [NewVideo EXCEPT !.allowed = pg.video.allowed]]

\* socket.on('state') and socket.on('resync'), which have the same body
OnState(s) ==
    LET pg0 == [page EXCEPT !.calls = {}, !.stateRef = Some(s)]
        pg1 == applyStateToPlayer(pg0, s)
        pg2 == IF ~pg1.socketIsHost /\ s.isPlaying /\ pg1.player /\ pg1.video.paused
               THEN ApiPlay([pg1 EXCEPT !.lastPlayReq = perfNow], "state")
               ELSE pg1
    IN  page' = Render(pg2)

\* socket.on('presence'): setUsers(current); the render that follows re-runs the
\* effects whose dependency list holds isHost, not the socket effect
HostCleanupKeepsTimers(pg) ==
    [pg EXCEPT !.emitOn = FALSE, !.seekEvt = None, !.rateEvt = None]

\* the cleanup of the host effect: the listeners are removed and the timeouts
\* seekTimer and rateTimer name are cleared
HostCleanup(pg) ==
    [pg EXCEPT !.emitOn = FALSE, !.seekEvt = None, !.rateEvt = None,
               !.pendingSeek = @ \ pg.seekTimer,
               !.pendingRate = @ \ pg.rateTimer]

\* the body of the host effect: it attaches the listeners, with no timeout
\* set, when there is a video element and the page is the host
HostEffect(pg) ==
    IF pg.player /\ IsHost(pg)
    THEN [pg EXCEPT !.emitOn = TRUE, !.seekTimer = None, !.rateTimer = None]
    ELSE pg

OnPresence(users) ==
    LET pg == [page EXCEPT !.calls = {}, !.sent = {}, !.users = users]
    IN  page' = IF IsHost(pg) = page.driftIsHost THEN pg
                ELSE HostEffect(
                       [HostCleanup(pg) EXCEPT
                            !.driftIsHost = IsHost(pg),
                            !.driftLoop = ~IsHost(pg) /\ pg.player,
                            !.autoLoop = ~IsHost(pg) /\ pg.player])

OnPongSlow(p) ==
    LET t2           == dateNow(page)
        rtt          == t2 - p.t0
        measuredSkew == (p.t1 - t2) * SkewScale + (rtt * SkewScale) \div 2
    IN  page' = [page EXCEPT !.calls = {}, !.rtt = rtt,
                             !.skewEma = (9 * @ + measuredSkew) \div 10]

\* socket.on('pong'): skewEma = (1 - alpha) * skewEma + alpha * measuredSkew with
\* alpha = 0.2, rounded down to the unit of skewEma
OnPong(p) ==
    LET t2           == dateNow(page)
        rtt          == t2 - p.t0
        measuredSkew == (p.t1 - t2) * SkewScale + (rtt * SkewScale) \div 2
    IN  page' = [page EXCEPT !.calls = {}, !.rtt = rtt,
                             !.skewEma = (4 * @ + measuredSkew) \div 5]

\* the page takes the next message from its socket
Receive ==
    /\ inbox # <<>>
    /\ inbox' = Tail(inbox)
    /\ LET e == Head(inbox)
       IN  CASE e.ev = "state"    -> OnState(e.data) /\ observed' = Noted(observed, e.data)
             [] e.ev = "presence" -> OnPresence(e.data) /\ UNCHANGED observed
             [] e.ev = "pong"     -> OnPong(e.data) /\ UNCHANGED observed
    /\ UNCHANGED <<serverVars, attached, lastMut, lostSince, held, meshVars>>

\* the video element while step milliseconds pass: a seek completes, and the
\* position advances at the element's rate unless it is paused
Progress(pg, step) ==
    [pg EXCEPT !.video.seeking = FALSE,
               !.video.currentTime =
                   IF pg.video.paused THEN @
                   ELSE @ + (step * (pg.video.playbackRate \div 1000))
                                \div (RateScale \div 1000)]

\* the controller's gains and limits, in fine rate units per media unit
KpGain == One \div (4 * Second)                  \* Kp = 0.25
KiGain == One \div (20 * 1000 * Second)          \* Ki = 0.05
Band   == (3 * One) \div 20                      \* 0.15
IntegralMaxWide == 20 * 1000 * Second
IntegralMax == 2 * 1000 * Second                 \* 2, in media units x ms

\* one check of the drift loop (the rVFC loop and the interval fallback have the
\* same body); the effect that starts the loop returns at once for a host
DriftTick ==
    /\ ~page.driftIsHost
    /\ page.driftLoop
    /\ page.stateRef # None
    /\ perfNow - page.lastCheck >= 300
    /\ LET s      == The(page.stateRef)
           pg0    == [page EXCEPT !.calls = {}, !.lastCheck = perfNow]
           target == computeTargetTime(s, dateNow(pg0) + pg0.skewEma \div SkewScale)
           drift  == pg0.video.currentTime - target
           dt     == Max(50, perfNow - pg0.lastTime)
           integral == IF s.isPlaying /\ ~pg0.video.paused
                       THEN Max(0 - IntegralMax,
                                Min(IntegralMax, pg0.integral + drift * dt))
                       ELSE pg0.integral
           baseline == Baseline(s)
           minRate  == Max(One \div 2, baseline - Band)
           maxRate  == Min(2 * One, baseline + Band)
           nextRate == Max(minRate,
                           Min(maxRate,
                               baseline - KpGain * drift - KiGain * integral))
           pg1    == IF Abs(drift) > seekThreshold(pg0)
                     THEN HardSeek(pg0, target, "drift")
                     ELSE LET pg == [pg0 EXCEPT !.lastTime = perfNow,
                                                !.integral = integral]
                          IN  IF Abs(pg.video.playbackRate - nextRate) > One \div 200
                              THEN ApiSetRate(pg, nextRate, "drift")
                              ELSE pg
       IN  page' = ensurePlaybackState(pg1, s.isPlaying, "drift")
    /\ UNCHANGED <<serverVars, attached, inbox, lastMut, lostSince, held, observed,
                   meshVars>>

\* tryAuto of the autoplay effect, on its 400 ms interval or on the element's
\* loadedmetadata and canplay events
tryAuto ==
    /\ page.autoLoop
    /\ page.armed
    /\ page.stateRef # None /\ The(page.stateRef).isPlaying
    /\ page.video.readyState >= 2 /\ page.video.paused
    /\ page' = ApiPlay([page EXCEPT !.calls = {}, !.armed = FALSE,
                                    !.lastPlayReq = perfNow, !.fired = TRUE],
                       "auto")
    /\ UNCHANGED <<serverVars, attached, inbox, lastMut, lostSince, held, observed,
                   meshVars>>

\* the user clicks or taps the page for the first time: from then on the
\* browser lets play() start playback
Gesture ==
    /\ ~page.video.allowed
    /\ page' = [page EXCEPT !.calls = {}, !.video.allowed = TRUE]
    /\ UNCHANGED <<serverVars, attached, inbox, lastMut, lostSince, held, observed,
                   meshVars>>

\* the debounce delays of the host effect
SeekDebounceMs == 120
RateDebounceMs == 150

\* steps of the page that take nothing from its socket
PageOnly ==
    UNCHANGED <<attached, inbox, lastMut, lostSince, held, observed, meshVars>>

\* the host moves the position with the controls; the element's seeked event
\* runs handleSeeked, which replaces the timeout seekTimer names
UserSeek(pos) ==
    /\ ~page.unmounted /\ page.player /\ IsHost(page)
    /\ LET pg == [page EXCEPT !.calls = {}, !.sent = {},
                              !.video.currentTime = pos]
       IN  page' = IF ~pg.emitOn THEN pg
                   ELSE [pg EXCEPT
                           !.pendingSeek = (@ \ pg.seekTimer)
                                           \cup {perfNow + SeekDebounceMs},
                           !.seekTimer = Some(perfNow + SeekDebounceMs),
                           !.seekEvt = Some(perfNow)]
    /\ PageOnly

\* the host changes the speed with the controls; the element's ratechange event
\* runs handleRate
UserRate(r) ==
    /\ ~page.unmounted /\ page.player /\ IsHost(page)
    /\ LET pg == [page EXCEPT !.calls = {}, !.sent = {},
                              !.video.playbackRate = r]
       IN  page' = IF ~pg.emitOn THEN pg
                   ELSE [pg EXCEPT
                           !.pendingRate = (@ \ pg.rateTimer)
                                           \cup {perfNow + RateDebounceMs},
                           !.rateTimer = Some(perfNow + RateDebounceMs),
                           !.rateEvt = Some(perfNow)]
    /\ PageOnly

\* the host starts or stops playback with the controls: handlePlay and
\* handlePause emit at once
UserToggle ==
    /\ ~page.unmounted /\ page.player /\ IsHost(page)
    /\ LET pg == [page EXCEPT !.calls = {}, !.sent = {},
                              !.video.paused = ~@]
       IN  page' =
             IF ~pg.emitOn THEN pg
             ELSE IF page.video.paused
             THEN [pg EXCEPT !.lastPlayReq = perfNow,
                             !.sent = {[ev |-> "play", data |-> 0]}]
             ELSE [pg EXCEPT !.lastPauseReq = perfNow,
                             !.sent = {[ev |-> "pause",
                                        data |-> pg.video.currentTime]}]
    /\ PageOnly

\* a timeout set by handleSeeked runs
SeekTimerFire ==
    /\ perfNow \in page.pendingSeek
    /\ page' = [page EXCEPT !.calls = {},
                            !.pendingSeek = @ \ {perfNow},
                            !.seekEvt = None,
                            !.lastSeekAt = perfNow,
                            !.sent = {[ev |-> "seek",
                                       data |-> page.video.currentTime]}]
    /\ PageOnly

\* a timeout set by handleRate runs
RateTimerFire ==
    /\ perfNow \in page.pendingRate
    /\ page' = [page EXCEPT !.calls = {},
                            !.pendingRate = @ \ {perfNow},
                            !.rateEvt = None,
                            !.sent = {[ev |-> "rate",
                                       data |-> IF page.video.playbackRate = 0
                                                THEN One
                                                ELSE page.video.playbackRate]}]
    /\ PageOnly

\* the page is left: every effect is cleaned up
PageUnmount ==
    /\ ~page.unmounted
    /\ page' = [HostCleanup([page EXCEPT !.calls = {}, !.sent = {}])
                  EXCEPT !.unmounted = TRUE, !.driftLoop = FALSE,
                         !.autoLoop = FALSE]
    /\ PageOnly

\* time passes on the page, up to the next timeout and not beyond limit; due
\* timeouts run first
TickPage(step, limit) ==
    /\ \A d \in page.pendingSeek \cup page.pendingRate : d > now
    /\ LET next == Min(now + step,
                       IF page.pendingSeek \cup page.pendingRate = {} THEN limit
                       ELSE CHOOSE d \in page.pendingSeek \cup page.pendingRate :
                               \A e \in page.pendingSeek \cup page.pendingRate :
                                  d <= e)
       IN  /\ next <= limit /\ next > now
           /\ now' = next
           /\ page' = [Progress(page, next - now) EXCEPT !.calls = {}, !.sent = {}]
    /\ UNCHANGED <<rooms, conn, sioRooms, timers, out, msgs, joinOrder>>
    /\ UNCHANGED <<attached, inbox, lastMut, lostSince, held, observed, meshVars>>

(***************************************************************************)
(* Handlers of io.on('connection')                                         *)
(***************************************************************************)
Open(s)   == conn[s].status = "open"

\* the handle setInterval returns: the least one no running timer has
nextTimer == CHOOSE h \in 1..(Cardinality(timers) + 1) :
                 /\ \A t \in timers : t.h # h
                 /\ \A k \in 1..(h - 1) : \E t \in timers : t.h = k

NoHeartbeatAlways(room) == TRUE

\* if (!room.heartbeat)
NoHeartbeat(room) == room.heartbeat = None

JoinRejectedSilently(s) == <<>>

\* what the join handler emits for a payload without a room id
JoinRejected(s) == <<ToSocket("join", s, "error", "bad_request")>>

\* socket.on('join', payload); each payload field is {} or {value}
Join(s, roomId, asHost, src) ==
    /\ Open(s)
    /\ msgs < MaxMsgs
    /\ msgs' = msgs + 1
    /\ IF ~Truthy(roomId)
       THEN /\ out' = JoinRejected(s)
            /\ UNCHANGED <<rooms, conn, sioRooms, timers, now, joinOrder>>
            /\ Channel(out', sioRooms, FALSE, {})
       ELSE LET r       == The(roomId)
                reg     == getOrCreateRoom(rooms, r)
                room    == reg[r]
                role    == IF asHost \/ room.hostSocketId = None
                           THEN "host" ELSE "viewer"
                user    == [id |-> s, role |-> role, ready |-> None]
                start   == NoHeartbeat(room)
                room2   == [room EXCEPT
                              !.hostSocketId = IF role = "host" THEN Some(s) ELSE @,
                              !.users = MapSet(@, user),
                              !.state.src = IF role = "host" /\ Truthy(src)
                                            THEN src ELSE @,
                              !.heartbeat = IF start THEN Some(nextTimer) ELSE @]
            IN  /\ rooms' = [reg EXCEPT ![r] = room2]
                /\ conn' = [conn EXCEPT ![s].joinedRoomId = Some(r),
                                        ![s].user = Some(user)]
                /\ sioRooms' = [sioRooms EXCEPT ![r] = @ \cup {s}]
                /\ timers' = IF start
                             THEN timers \cup {[h |-> nextTimer, roomId |-> r,
                                                due |-> now + HeartbeatMs]}
                             ELSE timers
                /\ out' = <<ToSocket("join", s, "state", room2.state),
                            ToRoom("join", r, "presence", room2.users)>>
                /\ joinOrder' = [joinOrder EXCEPT ![r] =
                                    IF s \in Range(@) THEN @ ELSE Append(@, s)]
                /\ UNCHANGED now
                /\ Channel(out', sioRooms', FALSE, {})

\* the new timeline of each of the four handlers
Mutate(by, state, t, payload) ==
    CASE by = "play"  -> PlayState(state, t)
      [] by = "pause" -> PauseState(state, t, payload)
      [] by = "seek"  -> SeekState(state, t, payload)
      [] by = "rate"  -> RateState(state, t, payload)

\* the common shape of play, pause, seek and rate; volatile says how the new
\* timeline is broadcast
Mutation(by, s, payload, volatile, lost) ==
    /\ Open(s)
    /\ UNCHANGED joinOrder
    /\ msgs < MaxMsgs
    /\ msgs' = msgs + 1
    /\ IF conn[s].joinedRoomId = None
       THEN /\ out' = <<>>
            /\ UNCHANGED <<rooms, conn, sioRooms, timers, now>>
            /\ ~lost
            /\ Channel(out', sioRooms, FALSE, {})
       ELSE LET r    == The(conn[s].joinedRoomId)
                reg  == getOrCreateRoom(rooms, r)
                st   == Mutate(by, reg[r].state, now, payload)
            IN  /\ rooms' = [reg EXCEPT ![r].state = st]
                /\ out' = <<IF volatile THEN ToRoomVolatile(by, r, "state", st)
                                        ELSE ToRoom(by, r, "state", st)>>
                /\ UNCHANGED <<conn, sioRooms, timers, now>>
                /\ CanLose(out', sioRooms, lost)
                /\ Channel(out', sioRooms, lost, {r})

Play(s) ==
    Mutation("play", s, None, FALSE, FALSE)

Pause(s, atMediaTime) ==
    Mutation("pause", s, atMediaTime, FALSE, FALSE)

Seek(s, toMediaTime, lost) ==
    Mutation("seek", s, toMediaTime, TRUE, lost)

Rate(s, playbackRate, lost) ==
    Mutation("rate", s, playbackRate, TRUE, lost)

\* socket.on('ready', payload)
Ready(s, ready) ==
    /\ Open(s)
    /\ UNCHANGED joinOrder
    /\ msgs < MaxMsgs
    /\ msgs' = msgs + 1
    /\ IF conn[s].joinedRoomId = None \/ conn[s].user = None
       THEN /\ out' = <<>>
            /\ UNCHANGED <<rooms, conn, sioRooms, timers, now>>
            /\ Channel(out', sioRooms, FALSE, {})
       ELSE LET r    == The(conn[s].joinedRoomId)
                reg  == getOrCreateRoom(rooms, r)
                user == [The(conn[s].user) EXCEPT !.ready = Some(ready)]
            IN  /\ rooms' = [reg EXCEPT ![r].users = MapSet(@, user)]
                /\ conn' = [conn EXCEPT ![s].user = Some(user)]
                /\ out' = <<ToRoom("ready", r, "presence", rooms'[r].users)>>
                /\ UNCHANGED <<sioRooms, timers, now>>
                /\ Channel(out', sioRooms, FALSE, {})

PingEchoesClock(s, t0) ==
    /\ Open(s)
    /\ UNCHANGED joinOrder
    /\ msgs < MaxMsgs
    /\ msgs' = msgs + 1
    /\ out' = <<ToSocket("ping", s, "pong", [t0 |-> t0, t1 |-> t0])>>
    /\ UNCHANGED <<rooms, conn, sioRooms, timers, now>>
    /\ Channel(out', sioRooms, FALSE, {})

\* socket.on('ping', payload)
Ping(s, t0) ==
    /\ Open(s)
    /\ UNCHANGED joinOrder
    /\ msgs < MaxMsgs
    /\ msgs' = msgs + 1
    /\ out' = <<ToSocket("ping", s, "pong", [t0 |-> t0, t1 |-> now])>>
    /\ UNCHANGED <<rooms, conn, sioRooms, timers, now>>
    /\ Channel(out', sioRooms, FALSE, {})

KeepHeartbeat(room) == timers

\* clearInterval(room.heartbeat)
ClearHeartbeat(room) == {t \in timers : t.h \notin room.heartbeat}

\* socket.on('disconnect'): socket.io has taken the socket out of its rooms
\* before the handler runs
Disconnect(s) ==
    /\ Open(s)
    /\ UNCHANGED msgs
    /\ sioRooms' = [r \in RoomIds |-> sioRooms[r] \ {s}]
    /\ IF conn[s].joinedRoomId = None
       THEN /\ conn' = [conn EXCEPT ![s].status = "closed"]
            /\ out' = <<>>
            /\ UNCHANGED <<rooms, timers, now, joinOrder>>
       ELSE LET r       == The(conn[s].joinedRoomId)
                reg     == getOrCreateRoom(rooms, r)
                room    == reg[r]
                left    == MapDelete(room.users, s)
                wasHost == room.hostSocketId = Some(s)
                handoff == wasHost /\ left # <<>>
                first   == [FirstUser(left) EXCEPT !.role = "host"]
                users2  == IF handoff THEN MapSet(left, first) ELSE left
                room2   == [room EXCEPT
                              !.users = users2,
                              !.hostSocketId = IF handoff THEN Some(first.id)
                                               ELSE IF wasHost THEN None ELSE @]
            IN  /\ out' = <<ToRoom("disconnect", r, "presence", users2)>>
                   \* first is the object the other connection's closure holds
                   \* exactly when that connection's latest join was to this room
                /\ conn' = [c \in Sockets |->
                              IF c = s THEN [conn[c] EXCEPT !.status = "closed"]
                              ELSE IF /\ handoff /\ c = first.id
                                      /\ conn[c].status = "open"
                                      /\ conn[c].joinedRoomId = Some(r)
                                   THEN [conn[c] EXCEPT !.user = Some(first)]
                                   ELSE conn[c]]
                /\ IF users2 = <<>>
                   THEN /\ timers' = ClearHeartbeat(room2)
                        /\ rooms' = RegDelete(reg, r)
                   ELSE /\ timers' = timers
                        /\ rooms' = [reg EXCEPT ![r] = room2]
                /\ joinOrder' = [joinOrder EXCEPT ![r] =
                                    SelectSeq(@, LAMBDA x : x # s)]
                /\ UNCHANGED now
    /\ Channel(out', sioRooms', FALSE, {})

HeartbeatSilent(t) ==
    /\ t \in timers
    /\ t.due = now
    /\ timers' = (timers \ {t}) \cup {[t EXCEPT !.due = now + HeartbeatMs]}
    /\ out' = <<>>
    /\ UNCHANGED <<rooms, conn, sioRooms, now, msgs, joinOrder, netVars, meshVars>>

HeartbeatStale(t) ==
    /\ t \in timers
    /\ t.due = now
    /\ UNCHANGED <<msgs, joinOrder>>
    /\ timers' = (timers \ {t}) \cup {[t EXCEPT !.due = now + HeartbeatMs]}
    /\ out' = <<ToRoom("heartbeat", t.roomId, "state", DefaultState(0))>>
    /\ UNCHANGED <<rooms, conn, sioRooms, now>>
    /\ Channel(out', sioRooms, FALSE, {})

\* the callback of room.heartbeat: it holds the room object it was created for,
\* which is the registry's entry for as long as the timer runs
HeartbeatFire(t) ==
    /\ t \in timers
    /\ t.due = now
    /\ UNCHANGED <<msgs, joinOrder>>
    /\ timers' = (timers \ {t}) \cup {[t EXCEPT !.due = now + HeartbeatMs]}
    /\ out' = <<ToRoom("heartbeat", t.roomId, "state",
                       IF t.roomId \in DOMAIN rooms THEN rooms[t.roomId].state
                       ELSE DefaultState(now))>>
    /\ UNCHANGED <<rooms, conn, sioRooms, now>>
    /\ Channel(out', sioRooms, FALSE, {})

\* time passes on the server; a due timer fires before time moves on
Tick(step, limit) ==
    /\ now + step <= limit
    /\ \A t \in timers : now + step <= t.due
    /\ now' = now + step
    /\ out' = <<>>
    /\ UNCHANGED <<rooms, conn, sioRooms, timers, msgs, joinOrder>>
    /\ page' = Progress(page, step)
    /\ UNCHANGED <<attached, inbox, lastMut, lostSince, held, observed, meshVars>>

(***************************************************************************)
(* The video strips (src/src/components/VideoStrip.tsx) of clients a and b *)
(* and the relay of their signaling messages.                              *)
(***************************************************************************)
Peers    == {"a", "b"}
Other(p) == IF p = "a" THEN "b" ELSE "a"

\* a component that is not rendered
NoComp ==
    [mounted |-> FALSE, aborted |-> FALSE, gum |-> "none", localStream |-> FALSE,
     tracksLive |-> FALSE, pingIv |-> FALSE, bitrateIv |-> FALSE,
     socket |-> "closed", visible |-> TRUE, trackEnabled |-> FALSE,
     peerIds |-> {}, fails |-> 0, tornDown |-> FALSE]

\* the page and its strip after the first render: the effects have run, so
\* getUserMedia is pending and the ping and bitrate intervals are set
NewComp ==
    [mounted |-> TRUE, aborted |-> FALSE, gum |-> "pending", localStream |-> FALSE,
     tracksLive |-> FALSE, pingIv |-> TRUE, bitrateIv |-> TRUE,
     socket |-> "open",
     visible |-> TRUE,           \* document.visibilityState === 'visible'
     trackEnabled |-> FALSE,     \* enabled of the camera track, once there is one
     peerIds |-> {},             \* the peerIds state
     fails |-> 0,                \* history: links of this client that have failed
     tornDown |-> FALSE]         \* history: this client has torn its link down

\* a strip that is not rendered: no socket, no links
NoStrip ==
    [socket |-> "none", myId |-> "", gum |-> "none", joined |-> FALSE,
     peersRef |-> [q \in {} |-> 0], peerIds |-> {}, offers |-> 0, fails |-> 0,
     closed |-> {}]

\* no sender yet
NoEnc == [maxBitrate |-> 0, scaleResolutionDownBy |-> 0]

StripIdle ==
    /\ links = [p \in Sockets |-> NoStrip]
    /\ lwire = [p \in Sockets |-> <<>>]
    /\ lroster = {}
    /\ enc = NoEnc
    /\ mon = [ticks |-> 0, run |-> 0, stats |-> None, applied |-> FALSE]

MeshIdle ==
    /\ comp = [p \in Peers |-> NoComp]
    /\ pcs = [p \in Peers |-> None]
    /\ wire = [p \in Peers |-> <<>>]
    /\ rtcRoster = {}
    /\ glare = FALSE
    /\ StripIdle

Msg(type, from, peers) == [type |-> type, from |-> from, peers |-> peers]

\* the relay hands a message to the socket of its addressee, if that is connected
Send(w, to, m) ==
    IF comp[to].socket = "open" THEN [w EXCEPT ![to] = Append(@, m)] ELSE w

\* const polite = !!myId && myId > peerId
polite(myId, peerId) == myId # "" /\ Ord(myId) > Ord(peerId)

\* createPeerConnection(peerId): the transceivers it adds make the connection
\* need negotiation; chain is the connection's queue of pending operations
createPeerConnection(p, peerId) ==
    [state |-> "stable", makingOffer |-> FALSE, polite |-> polite(p, peerId),
     done |-> FALSE, chain |-> <<>>, hasLocal |-> FALSE, ice |-> 0,
     discarded |-> 0]

\* the effect with the dependency list [peerIds], which runs after a render in
\* which the peerIds state is another array than before
peerIdsEffect(c) ==
    IF c.localStream THEN [c EXCEPT !.trackEnabled = (c.peerIds # {} /\ c.visible)]
    ELSE c

\* pc.ontrack: setPeerIds adds the peer unless the array includes it
ontrack(c, peerId) ==
    IF peerId \in c.peerIds THEN c
    ELSE peerIdsEffect([c EXCEPT !.peerIds = @ \cup {peerId}])

\* rec.pc.close(); peersRef.current.delete(peerId); setPeerIds(prev.filter(...)),
\* as handlePeerLeft and onconnectionstatechange do it
dropPeer(c, peerId) ==
    peerIdsEffect([c EXCEPT !.peerIds = @ \ {peerId}, !.tornDown = TRUE])

HasPc(p) == pcs[p] # None
Pc(p)    == The(pcs[p])

InFlight(st) == \A p \in Peers : st[p] # None /\ The(st[p]).state = "have-local-offer"

\* every step of the mesh leaves the server and the page alone and records glare
MeshStep ==
    /\ glare' = (glare \/ InFlight(pcs'))
    /\ UNCHANGED <<serverVars, netVars, stripVars>>

(***************************************************************************)
(* Spec: the server with three connections and two room ids                *)
(***************************************************************************)
ServerInit ==
    /\ rooms = <<>>
    /\ conn = [s \in Sockets |->
                 [status |-> "open", joinedRoomId |-> None, user |-> None]]
    /\ sioRooms = [r \in RoomIds |-> {}]
    /\ timers = {}
    /\ now = 0
    /\ out = <<>>
    /\ msgs = 0
    /\ joinOrder = [r \in RoomIds |-> <<>>]

NetIdle ==
    /\ attached = None
    /\ inbox = <<>>
    /\ lastMut = [r \in RoomIds |-> 0]
    /\ lostSince = FALSE
    /\ held = <<>>
    /\ observed = <<>>
    /\ page = NoPage

Init == ServerInit /\ NetIdle /\ MeshIdle

\* Connections and room ids are interchangeable (the handlers only compare them
\* for equality), so they are named in the order they are first used: a
\* connection sends its first join only after every connection before it has
\* joined, and a room id is first joined only after every id before it.
Joined(s)      == conn[s].joinedRoomId # None
Used(r)        == \/ r \in DOMAIN rooms
                  \/ sioRooms[r] # {}
                  \/ \E s \in Sockets : Open(s) /\ conn[s].joinedRoomId = Some(r)
InOrder(s, roomId) ==
    /\ \A s2 \in Sockets : (Ord(s2) < Ord(s)) => Joined(s2)
    /\ (Truthy(roomId) /\ ~Used(The(roomId))) =>
          \A r2 \in RoomIds : (Ord(r2) < Ord(The(roomId))) => Used(r2)

Next ==
    \/ \E s \in Sockets, r \in {None, Some("")} \cup {Some(x) : x \in RoomIds},
          h \in BOOLEAN, u \in {None, Some("u1")} :
          InOrder(s, r) /\ Join(s, r, h, u)
    \/ \E s \in Sockets : Play(s)
    \/ \E s \in Sockets : Pause(s, None)
    \/ \E s \in Sockets : Seek(s, Some(3 * Second), FALSE)
    \/ \E s \in Sockets : Rate(s, Some(2 * DefaultRate), FALSE)
    \/ \E s \in Sockets, f \in BOOLEAN : Ready(s, f)
    \/ \E s \in Sockets : Ping(s, now)
    \/ \E s \in Sockets : Disconnect(s)
    \/ \E t \in timers : HeartbeatFire(t)
    \/ Tick(HeartbeatMs, HeartbeatMs)

Spec == Init /\ [][Next]_vars

(***************************************************************************)
(* Claims about the registry (checked under Spec)                          *)
(***************************************************************************)

\* C1: in every reachable state of a room at most one entry of its participant
\* map has role 'host', whatever joins (also one that asks for the role while
\* another participant holds it) and leaves came before.
C1_AtMostOneHost ==
    \A r \in DOMAIN rooms : Cardinality(Hosts(rooms[r])) <= 1

\* the step is the disconnect handler of connection s, which was bound to room r
Leaves(s, r) ==
    /\ Open(s) /\ conn'[s].status = "closed"
    /\ conn[s].joinedRoomId = Some(r)

RegistryLifecycle ==
    /\ \A t \in timers : /\ t.roomId \in DOMAIN rooms
                         /\ rooms[t.roomId].heartbeat = Some(t.h)
    /\ \A r \in DOMAIN rooms :
          /\ rooms[r].users # <<>>
          /\ \E t \in timers : t.roomId = r /\ rooms[r].heartbeat = Some(t.h)
    /\ \A i \in DOMAIN out :
          out[i].by = "heartbeat" => out[i].to \in DOMAIN rooms

\* a room enters the registry by a join, with the default timeline made at that
\* moment, and leaves it by the leave that empties it, which stops its timer
RegistrySteps ==
    \A r \in RoomIds :
       /\ (r \notin DOMAIN rooms /\ r \in DOMAIN rooms')
          => /\ out'[1].by = "join"
             /\ [rooms'[r].state EXCEPT !.src = None] = DefaultState(now)
             /\ Len(rooms'[r].users) = 1
       /\ (r \in DOMAIN rooms /\ r \notin DOMAIN rooms')
          => /\ \E s \in Sockets : Leaves(s, r) /\ joinOrder[r] = <<s>>
             /\ \A t \in timers' : t.roomId # r

\* C7: a room is in the registry from the first join to its id until the leave
\* that empties its participant map; that leave stops the re-broadcast timer and
\* removes the entry, so no periodic broadcast is made for a room outside the
\* registry, and a later join to the id starts from a fresh default timeline.
C7_RoomLifecycle ==
    /\ []RegistryLifecycle
    /\ [][RegistrySteps]_vars

\* C7 witness: a created r1 and left it, which removed it; b's join made it anew.
C7_Witness ==
    /\ msgs = 2
    /\ conn["a"].status = "closed" /\ conn["a"].joinedRoomId = Some("r1")
    /\ "r1" \in DOMAIN rooms
    /\ joinOrder["r1"] = <<"b">>
    /\ Len(out) = 2 /\ out[1].by = "join"
    /\ \E t \in timers : t.roomId = "r1" /\ t.due = now + HeartbeatMs

\* the room an open connection is bound to is in the registry: the connection's
\* own entry keeps the room's participant map from becoming empty
JoinedRoomExists ==
    \A s \in Sockets :
       (Open(s) /\ Joined(s)) => The(conn[s].joinedRoomId) \in DOMAIN rooms

\* room ids a join payload can lack: undefined and ''
NoRoomId == {None, Some("")}

\* C13: a join without a room id, or with an empty one, sends a bad_request
\* error to the requesting connection only and leaves the registry, every room,
\* the connection's binding, the socket.io rooms and the timers as they were.
C13_BadJoinRejected ==
    [][\A s \in Sockets, r \in NoRoomId, h \in BOOLEAN, u \in {None, Some("u1")} :
          Join(s, r, h, u)
          => /\ Len(out') = 1
             /\ out'[1].ev = "error" /\ out'[1].data = "bad_request"
             /\ Recipients(out'[1], sioRooms') = {s}
             /\ UNCHANGED <<rooms, conn, sioRooms, timers, joinOrder>>
      ]_vars

\* C13 witness: a and b are in r1, and a's next join carried no room id.
C13_Witness ==
    /\ out = <<ToSocket("join", "a", "error", "bad_request")>>
    /\ conn["a"].joinedRoomId = Some("r1")
    /\ "r1" \in DOMAIN rooms
    /\ Len(rooms["r1"].users) = 2
    /\ msgs = 3

\* C14: after any join or leave, a room with participants has a participant
\* with role 'host', and its hostSocketId is the id of such a participant.
C14_HostPresent ==
    \A r \in DOMAIN rooms :
       rooms[r].users # <<>>
       => /\ rooms[r].hostSocketId # None
          /\ \E i \in Hosts(rooms[r]) :
                rooms[r].users[i].id = The(rooms[r].hostSocketId)

\* the entry of connection s in the participant map
Entry(users, s) == users[CHOOSE i \in DOMAIN users : users[i].id = s]

\* C15: a join gives the joiner role 'host' exactly when it asked for the role
\* or no participant of the room has it at that moment, and 'viewer' otherwise;
\* the joiner is sent the room's timeline and the room, the joiner included, the
\* new participant list.
C15_JoinRole ==
    [][\A s \in Sockets, r \in RoomIds, h \in BOOLEAN, u \in {None, Some("u1")} :
          Join(s, Some(r), h, u)
          => LET hadHost == r \in DOMAIN rooms /\ Hosts(rooms[r]) # {}
             IN  /\ r \in DOMAIN rooms' /\ MapHas(rooms'[r].users, s)
                 /\ Entry(rooms'[r].users, s).role
                       = (IF h \/ ~hadHost THEN "host" ELSE "viewer")
                 /\ out' = <<ToSocket("join", s, "state", rooms'[r].state),
                             ToRoom("join", r, "presence", rooms'[r].users)>>
                 /\ s \in sioRooms'[r]
      ]_vars

\* C16: play, pause, seek and rate change a room's timeline only when they come
\* from its participant with role 'host'; from a participant with role 'viewer'
\* they leave the timeline as it was and no state is broadcast.
C16_OnlyHostMutates ==
    [][\A s \in Sockets :
          (/\ Joined(s)
           /\ The(conn[s].joinedRoomId) \in DOMAIN rooms
           /\ MapHas(rooms[The(conn[s].joinedRoomId)].users, s)
           /\ Entry(rooms[The(conn[s].joinedRoomId)].users, s).role = "viewer"
           /\ \/ Play(s) \/ Pause(s, None)
              \/ Seek(s, Some(3 * Second), FALSE)
              \/ Rate(s, Some(2 * DefaultRate), FALSE))
          => /\ rooms' = rooms
             /\ \A i \in DOMAIN out' : out'[i].ev # "state"
      ]_vars

\* C21: a join sets the timeline's source only when the room gets its first
\* host; a join to a room that is in the registry, which has had a host since
\* the join that made it, leaves the source as it was, whatever it asks for.
C21_SourceSetOnce ==
    [][\A s \in Sockets, r \in RoomIds, h \in BOOLEAN, u \in {None, Some("u1")} :
          (r \in DOMAIN rooms /\ Join(s, Some(r), h, u))
          => rooms'[r].state.src = rooms[r].state.src
      ]_vars

\* the step is a handler of connection s, which is bound to room A after it
HandledFor(s, A) ==
    /\ conn'[s].joinedRoomId = Some(A)
    /\ \/ \E r \in NoRoomId \cup {Some(x) : x \in RoomIds}, h \in BOOLEAN,
              u \in {None, Some("u1")} : Join(s, r, h, u)
       \/ Play(s) \/ Pause(s, None)
       \/ Seek(s, Some(3 * Second), FALSE)
       \/ Rate(s, Some(2 * DefaultRate), FALSE)
       \/ \E f \in BOOLEAN : Ready(s, f)
       \/ Disconnect(s)

\* the open connections bound to room B
BoundTo(B, c) == {x \in Sockets : c[x].status = "open" /\ c[x].joinedRoomId = Some(B)}

\* C24: a message handled for a connection bound to room A leaves the entry of
\* every other room B (timeline, participant map, host id, timer) as it was and
\* emits nothing that reaches a connection bound to B.
C24_RoomsIndependent ==
    [][\A s \in Sockets, A \in RoomIds, B \in RoomIds :
          (A # B /\ HandledFor(s, A))
          => /\ (B \in DOMAIN rooms) <=> (B \in DOMAIN rooms')
             /\ (B \in DOMAIN rooms) => rooms'[B] = rooms[B]
             /\ {t \in timers' : t.roomId = B} = {t \in timers : t.roomId = B}
             /\ \A i \in DOMAIN out' :
                   Recipients(out'[i], sioRooms') \cap BoundTo(B, conn') = {}
      ]_vars

\* the timers that belong to room r
TimersOf(r) == {t \in timers : t.roomId = r}

\* C37: a room of the registry has exactly one re-broadcast timer, the one its
\* first join started, however many joins came since, and no other room has
\* one; each firing broadcasts to the room the timeline it holds at that time.
C37_OneTimerPerRoom ==
    /\ [](\A r \in RoomIds :
             /\ Cardinality(TimersOf(r)) <= 1
             /\ (r \in DOMAIN rooms)
                => \E t \in TimersOf(r) : rooms[r].heartbeat = Some(t.h)
             /\ (r \notin DOMAIN rooms) => TimersOf(r) = {})
    /\ [][\A t \in timers :
             HeartbeatFire(t)
             => /\ t.roomId \in DOMAIN rooms
                /\ out' = <<ToRoom("heartbeat", t.roomId, "state",
                                   rooms[t.roomId].state)>>]_vars

\* C37 witness: three joins have gone to room r1, its timeline has been changed
\* by the first of them, and its one timer has just fired.
C37_Witness ==
    /\ "r1" \in DOMAIN rooms
    /\ msgs = 3 /\ Len(joinOrder["r1"]) >= 2
    /\ Cardinality(TimersOf("r1")) = 1
    /\ Len(out) = 1 /\ out[1].by = "heartbeat"
    /\ out[1].data = rooms["r1"].state
    /\ rooms["r1"].state.src # None

\* the step is the handler of join, ready, ping or disconnect of some connection
PresenceStep ==
    \E s \in Sockets :
       \/ \E r \in {None, Some("")} \cup {Some(x) : x \in RoomIds}, h \in BOOLEAN,
             u \in {None, Some("u1")} : Join(s, r, h, u)
       \/ \E f \in BOOLEAN : Ready(s, f)
       \/ Ping(s, now)
       \/ Disconnect(s)

\* C39: join, ready, ping and disconnect leave isPlaying, baseMediaTime,
\* baseServerTime and playbackRate of every room that is there before and after
\* as they were, also when the host leaves a playing room; ready changes nothing
\* in the registry but the ready flag of the sender's entry in its room.
C39_PresenceKeepsTimeline ==
    [][/\ PresenceStep
          => \A r \in DOMAIN rooms \cap DOMAIN rooms' :
                /\ rooms'[r].state.isPlaying = rooms[r].state.isPlaying
                /\ rooms'[r].state.baseMediaTime = rooms[r].state.baseMediaTime
                /\ rooms'[r].state.baseServerTime = rooms[r].state.baseServerTime
                /\ rooms'[r].state.playbackRate = rooms[r].state.playbackRate
       /\ \A s \in Sockets, f \in BOOLEAN :
             Ready(s, f)
             => /\ DOMAIN rooms' = DOMAIN rooms
                /\ \A r \in DOMAIN rooms :
                      /\ rooms'[r].state = rooms[r].state
                      /\ rooms'[r].hostSocketId = rooms[r].hostSocketId
                      /\ rooms'[r].heartbeat = rooms[r].heartbeat
                      /\ Len(rooms'[r].users) = Len(rooms[r].users)
                      /\ \A i \in DOMAIN rooms[r].users :
                            rooms'[r].users[i] =
                              IF /\ rooms[r].users[i].id = s
                                 /\ conn[s].joinedRoomId = Some(r)
                              THEN [rooms[r].users[i] EXCEPT !.ready = Some(f)]
                              ELSE rooms[r].users[i]
      ]_vars

\* C39 witness: the host has left room r1 while it was playing; the room is
\* still there, handed to b, with the timeline the play set a heartbeat ago.
C39_Witness ==
    /\ Len(out) = 1 /\ out[1].by = "disconnect"
    /\ conn["a"].status = "closed"
    /\ "r1" \in DOMAIN rooms
    /\ rooms["r1"].hostSocketId = Some("b")
    /\ rooms["r1"].state.isPlaying
    /\ rooms["r1"].state.baseServerTime < now

\* C40: every participant in a room's participant map, and every room's host
\* id, is an open connection: a connection that has disconnected is in no room,
\* also when it had sent join for more than one room id.
C40_OnlyConnectedParticipants ==
    \A r \in DOMAIN rooms :
       /\ \A i \in DOMAIN rooms[r].users : Open(rooms[r].users[i].id)
       /\ \A h \in rooms[r].hostSocketId : Open(h)

(***************************************************************************)
(* SpecTimeline: one connection driving the timeline of its room           *)
(***************************************************************************)
\* timelines the four mutations produce at time 0
Timelines ==
    [isPlaying : BOOLEAN, baseMediaTime : {0, 3 * Second}, baseServerTime : {0},
     playbackRate : {MinRate, DefaultRate, MaxRate}, src : {None, Some("u1")}]

PauseInputs == {None, Some(0), Some(7 * Second), Some(0 - 2 * Second)}
SeekInputs  == {None, Some(0 - 2 * Second), Some(5 * Second)}
RateInputs  == {None, Some(1), Some(DefaultRate + 10), Some(5 * DefaultRate)}

\* connection a has joined room r1 at time 0 and has set its timeline
TimelineInit ==
    /\ \E st \in Timelines :
          rooms = [r \in {"r1"} |->
                     [state |-> st,
                      users |-> <<[id |-> "a", role |-> "host", ready |-> None]>>,
                      hostSocketId |-> Some("a"),
                      heartbeat |-> Some(1)]]
    /\ conn = [s \in Sockets |->
                 IF s = "a"
                 THEN [status |-> "open", joinedRoomId |-> Some("r1"),
                       user |-> Some([id |-> "a", role |-> "host", ready |-> None])]
                 ELSE [status |-> "open", joinedRoomId |-> None, user |-> None]]
    /\ sioRooms = [r \in RoomIds |-> IF r = "r1" THEN {"a"} ELSE {}]
    /\ timers = {[h |-> 1, roomId |-> "r1", due |-> HeartbeatMs]}
    /\ now = 0
    /\ out = <<>>
    /\ msgs = 0
    /\ joinOrder = [r \in RoomIds |-> IF r = "r1" THEN <<"a">> ELSE <<>>]
    /\ NetIdle
    /\ MeshIdle

TimelineNext ==
    \/ Play("a")
    \/ \E at \in PauseInputs : Pause("a", at)
    \/ \E to \in SeekInputs : Seek("a", to, FALSE)
    \/ \E p \in RateInputs : Rate("a", p, FALSE)
    \/ \E t \in timers : HeartbeatFire(t)
    \/ Tick(TickMs, MaxNow)

SpecTimeline == TimelineInit /\ [][TimelineNext]_vars

\* the target of room r1 at the server's present time, before and after a step
TargetNow  == computeTargetTime(rooms["r1"].state, now)
TargetNext == computeTargetTime(rooms'["r1"].state, now')

\* C8: right after the server handles play, pause, seek or rate at time t, the
\* target of the new state at t is the reference value of the operation: the
\* target at t before the mutation for play, rate and pause without a time, the
\* given time for pause with one, and max(0, toMediaTime) for seek.
C8_ZeroResidual ==
    [][/\ Play("a") => TargetNext = TargetNow
       /\ \A p \in RateInputs : Rate("a", p, FALSE) => TargetNext = TargetNow
       /\ Pause("a", None) => TargetNext = TargetNow
       /\ \A at \in PauseInputs \ {None} :
             Pause("a", at) => TargetNext = The(at)
       /\ \A to \in SeekInputs \ {None} :
             Seek("a", to, FALSE)
             => TargetNext = (IF The(to) > 0 THEN The(to) ELSE 0)
      ]_vars

\* C8 witness: the rate was changed while the room had been playing for a while
\* at another rate, so the rebase moved baseMediaTime
C8_Witness ==
    /\ Len(out) = 1 /\ out[1].by = "rate"
    /\ rooms["r1"].state.isPlaying
    /\ rooms["r1"].state.baseServerTime = now /\ now > 0
    /\ rooms["r1"].state.baseMediaTime = 3 * Second + now * MaxRate
    /\ rooms["r1"].state.playbackRate = DefaultRate + 10

\* C22: the room's baseMediaTime is never negative, whatever play, pause (with
\* or without a time, of any value), seek and rate messages came before.
C22_PositionNotNegative ==
    \A r \in DOMAIN rooms : rooms[r].state.baseMediaTime >= 0

ClockTimes == {k * TickMs : k \in 0 .. MaxTicks}

\* C38: a seek leaves isPlaying, playbackRate and src as they were; a pause
\* leaves playbackRate and src as they were, and the target of the timeline it
\* makes is its baseMediaTime at every later time.
C38_SeekPauseFrame ==
    [][/\ \A to \in SeekInputs :
             Seek("a", to, FALSE)
             => /\ rooms'["r1"].state.isPlaying = rooms["r1"].state.isPlaying
                /\ rooms'["r1"].state.playbackRate = rooms["r1"].state.playbackRate
                /\ rooms'["r1"].state.src = rooms["r1"].state.src
       /\ \A at \in PauseInputs :
             Pause("a", at)
             => /\ rooms'["r1"].state.playbackRate = rooms["r1"].state.playbackRate
                /\ rooms'["r1"].state.src = rooms["r1"].state.src
                /\ \A t \in ClockTimes :
                      t >= now => computeTargetTime(rooms'["r1"].state, t)
                                  = rooms'["r1"].state.baseMediaTime
      ]_vars

\* C38 witness: the room, which has a source, was paused after it had played
\* for a while at the highest rate.
C38_Witness ==
    /\ Len(out) = 1 /\ out[1].by = "pause"
    /\ now > 0 /\ now < MaxNow
    /\ ~rooms["r1"].state.isPlaying
    /\ rooms["r1"].state.playbackRate = MaxRate
    /\ rooms["r1"].state.src = Some("u1")
    /\ rooms["r1"].state.baseMediaTime = 3 * Second + now * MaxRate

\* C9: computeTargetTime is a function of its inputs, strictly increasing in now
\* while isPlaying and playbackRate > 0, and for {isPlaying: true, baseMediaTime:
\* 10, baseServerTime: T, playbackRate: 1} it is 10 at T and 15 at T + 5000 ms.
C9_TargetTime ==
    LET st == rooms["r1"].state
        ex == [isPlaying |-> TRUE, baseMediaTime |-> 10 * Second,
               baseServerTime |-> now, playbackRate |-> DefaultRate, src |-> None]
    IN  /\ \A t1, t2 \in ClockTimes \cup {t + 1 : t \in ClockTimes} :
            /\ (t1 = t2) => computeTargetTime(st, t1) = computeTargetTime(st, t2)
            /\ (st.isPlaying /\ st.playbackRate > 0 /\ t1 < t2)
               => computeTargetTime(st, t1) < computeTargetTime(st, t2)
        /\ computeTargetTime(ex, now) = 10 * Second
        /\ computeTargetTime(ex, now + 5000) = 15 * Second

\* C9 witness: the room plays at the lowest rate and time has passed since the
\* last mutation
C9_Witness ==
    /\ rooms["r1"].state.isPlaying
    /\ rooms["r1"].state.playbackRate = MinRate
    /\ 0 < rooms["r1"].state.baseServerTime
    /\ rooms["r1"].state.baseServerTime < now
    /\ TargetNow = rooms["r1"].state.baseMediaTime + TickMs * MinRate

(***************************************************************************)
(* SpecSync: a host connection, and a follower page on connection b        *)
(***************************************************************************)
\* connection a has joined room r1 at time 0; the page is mounted on connection
\* b and is about to emit its join
SyncInit ==
    /\ rooms = [r \in {"r1"} |->
                  [state |-> DefaultState(0),
                   users |-> <<[id |-> "a", role |-> "host", ready |-> None]>>,
                   hostSocketId |-> Some("a"),
                   heartbeat |-> Some(1)]]
    /\ conn = [s \in Sockets |->
                 IF s = "a"
                 THEN [status |-> "open", joinedRoomId |-> Some("r1"),
                       user |-> Some([id |-> "a", role |-> "host", ready |-> None])]
                 ELSE [status |-> "open", joinedRoomId |-> None, user |-> None]]
    /\ sioRooms = [r \in RoomIds |-> IF r = "r1" THEN {"a"} ELSE {}]
    /\ timers = {[h |-> 1, roomId |-> "r1", due |-> HeartbeatMs]}
    /\ now = 0
    /\ out = <<>>
    /\ msgs = 0
    /\ joinOrder = [r \in RoomIds |-> IF r = "r1" THEN <<"a">> ELSE <<>>]
    /\ attached = Some("b")
    /\ inbox = <<>>
    /\ lastMut = [r \in RoomIds |-> 0]
    /\ lostSince = FALSE
    /\ held = <<>>
    /\ observed = <<>>
    /\ page = NewPage("b")
    /\ MeshIdle

SyncNext ==
    \/ ~Joined("b") /\ Join("b", Some("r1"), FALSE, None)
    \/ Play("a")
    \/ Pause("a", None)
    \/ \E lost \in BOOLEAN : Seek("a", Some(5 * Second), lost)
    \/ \E lost \in BOOLEAN : Rate("a", Some(DefaultRate + 10), lost)
    \/ Ping("b", now)
    \/ \E t \in timers : HeartbeatFire(t)
    \/ Tick(TickMs, MaxNow)
    \/ Receive

SpecSync == SyncInit /\ [][SyncNext]_vars

\* the timeline the page holds once it has taken what is in flight to it
Latest ==
    LET st == SelectSeq(inbox, LAMBDA e : e.ev = "state")
    IN  IF st = <<>> THEN page.stateRef ELSE Some(st[Len(st)].data)

\* C10: when the best-effort broadcast of a seek or rate mutation was lost on the
\* way to the connected follower and no mutation followed, the periodic
\* re-broadcast, which comes at most 2 s after any moment, carries the server's
\* timeline to the follower: more than 2 s after the mutation the timeline the
\* follower holds or is about to take is the server's.
C10_HealedByRebroadcast ==
    /\ \A t \in timers : now <= t.due /\ t.due <= now + HeartbeatMs
    /\ (lostSince /\ now > lastMut["r1"] + HeartbeatMs)
       => Latest = Some(rooms["r1"].state)

\* C10 witness: the seek's broadcast was lost, the re-broadcast has come and the
\* page has taken it
C10_Witness ==
    /\ lostSince /\ now > lastMut["r1"] + HeartbeatMs
    /\ inbox = <<>>
    /\ rooms["r1"].state.baseMediaTime = 5 * Second
    /\ page.stateRef = Some(rooms["r1"].state)
    /\ page.video.currentTime = 5 * Second

RECURSIVE IsSubseq(_, _)
\* a is b with some of its elements left out
IsSubseq(a, b) ==
    IF a = <<>> THEN TRUE
    ELSE IF b = <<>> THEN FALSE
    ELSE IF Head(a) = Head(b) THEN IsSubseq(Tail(a), Tail(b))
    ELSE IsSubseq(a, Tail(b))

StateMsgs ==
    [isPlaying : BOOLEAN, baseMediaTime : {0, 5 * Second}, baseServerTime : {0},
     playbackRate : {MinRate, DefaultRate, MaxRate}, src : {None}]

\* participant lists of a room the page has joined
PresenceMsgs ==
    {<<[id |-> "a", role |-> "host", ready |-> None]>>,
     <<[id |-> "b", role |-> "host", ready |-> None],
       [id |-> "a", role |-> "viewer", ready |-> None]>>}

\* answers to the page's pings: sent at t0, answered by the server at t1
PongMsgs ==
    {[t0 |-> t0, t1 |-> t1] : t0 \in {now - TickMs, now} \cap Nat, t1 \in {now}}

ClientInit ==
    /\ ServerInit
    /\ attached = Some("a")
    /\ inbox = <<>>
    /\ lastMut = [r \in RoomIds |-> 0]
    /\ lostSince = FALSE
    /\ held = <<>>
    /\ observed = <<>>
    /\ page = NewPage("a")
    /\ MeshIdle

\* a message to the page that the server is not modelled sending
Sent ==
    /\ msgs < MaxMsgs
    /\ msgs' = msgs + 1
    /\ UNCHANGED <<rooms, conn, sioRooms, timers, now, out, joinOrder>>
    /\ UNCHANGED <<attached, inbox, lastMut, lostSince, held, observed, meshVars>>

ClientNext ==
    \/ \E s \in StateMsgs : OnState(s) /\ Sent
    \/ \E users \in PresenceMsgs : OnPresence(users) /\ Sent
    \/ \E p \in PongMsgs : OnPong(p) /\ Sent
    \/ DriftTick
    \/ Tick(TickMs, 2 * TickMs)

SpecClient == ClientInit /\ [][ClientNext]_vars

\* C2: a page that holds the host role never has its player seeked, played,
\* paused or rate-adjusted by the state application or the drift loop: while the
\* page is host, its last step made no such call.
C2_HostNeverCorrected ==
    IsHost(page) => \A c \in page.calls : c.by \notin {"state", "drift"}

\* C3: every rate the drift loop applies lies in [playbackRate - 0.15,
\* playbackRate + 0.15] and in [0.5, 2.0], playbackRate being the rate of the
\* timeline the page holds.
C3_RateWithinBand ==
    \A c \in page.calls :
       (c.api = "setRate" /\ c.by = "drift")
       => /\ Baseline(The(page.stateRef)) - Band <= c.arg
          /\ c.arg <= Baseline(The(page.stateRef)) + Band
          /\ One \div 2 <= c.arg
          /\ c.arg <= 2 * One

\* C12: a step of the state handler or of the drift loop that makes a hard seek
\* ends with the controller's integral at exactly 0.
C12_SeekResetsIntegral ==
    (\E c \in page.calls : c.api = "seek" /\ c.by \in {"state", "drift"})
    => page.integral = 0

\* C12 witness: the drift loop has run its controller branch after time had
\* passed with a skewed clock, and the state that came next made the page seek.
C12_Witness ==
    /\ \E c \in page.calls : c.api = "seek" /\ c.by = "state"
    /\ page.integral = 0
    /\ page.lastTime > 0 /\ page.skewEma # 0
    /\ page.lastSeekAt = perfNow

\* the drift the next check of the drift loop will find
DriftNow ==
    page.video.currentTime
    - computeTargetTime(The(page.stateRef),
                        dateNow(page) + page.skewEma \div SkewScale)

\* the player api calls the drift loop made in the step that ends
DriftCalls(api) == {c \in page'.calls : c.by = "drift" /\ c.api = api}

IntegralBounded ==
    /\ 0 - 2 * 1000 * Second <= page.integral
    /\ page.integral <= 2 * 1000 * Second

\* a check of the drift loop, with the timeline playing and the element not
\* paused, adds drift * dt to the integral and clamps it
Accumulates ==
    /\ DriftTick
    /\ The(page.stateRef).isPlaying /\ ~page.video.paused
    /\ page'.integral =
          Max(0 - 2 * 1000 * Second,
              Min(2 * 1000 * Second,
                  page.integral + DriftNow * Max(50, perfNow - page.lastTime)))

\* C27 as stated: the integral stays within [-2, 2] and changes only in checks
\* of the drift loop made with the timeline playing and the element not paused,
\* where it changes by drift * dt.
C27_ChangesOnlyWhilePlaying ==
    /\ []IntegralBounded
    /\ [][page'.integral # page.integral => Accumulates]_vars

\* C27 as amended: the integral stays within [-2, 2] and changes only in such
\* checks, by drift * dt, or in a step that seeks to the target, which sets it
\* to 0.
C27_ChangesWhilePlayingOrResets ==
    /\ []IntegralBounded
    /\ [][page'.integral # page.integral
            => \/ Accumulates
               \/ /\ \E c \in page'.calls :
                        c.api = "seek" /\ c.by \in {"state", "drift"}
                  /\ page'.integral = 0]_vars

\* C27 witness: the last check added to an integral that had been built up
\* before, and the clamp at 2 cut the sum.
C27_Witness ==
    /\ page.integral \in {2 * 1000 * Second, 0 - 2 * 1000 * Second}
    /\ page.lastTime = perfNow /\ page.lastCheck = perfNow
    /\ The(page.stateRef).isPlaying /\ ~page.video.paused

\* C28: the state handler and the drift loop never play or pause the element
\* when the page seeked in the same step, or when its last play request, pause
\* request or seek was less than max(300 ms, 2 * rtt + 200 ms) ago.
C28_NoReconcileInWindow ==
    [][\A c \in page'.calls :
          (c.api \in {"play", "pause"} /\ c.by \in {"state", "drift"})
          => /\ \A k \in page'.calls : k.api # "seek"
             /\ \A t \in {page.lastPlayReq, page.lastPauseReq, page.lastSeekAt} :
                   t > 0 => now' - t >= Max(300, 2 * page'.rtt + 200)
      ]_vars

(***************************************************************************)
(* SpecPage: the page of connection a from its first render, with or       *)
(* without a source in localStorage, in a browser that may hold back       *)
(* playback until the user has touched the page                            *)
(***************************************************************************)
\* the page after its first render and effects: the Player, and with it the
\* loops of the drift and autoplay effects, is there when initialSrc is
MountedPage(id, initialSrc, allowed) ==
    [NewPage(id) EXCEPT !.initialSrc = initialSrc, !.player = initialSrc,
                        !.driftLoop = initialSrc, !.autoLoop = initialSrc,
                        !.video.allowed = allowed]

\* timelines of a room whose host has set a source or not
PageStateMsgs ==
    [isPlaying : BOOLEAN, baseMediaTime : {0, 5 * Second}, baseServerTime : {0},
     playbackRate : {DefaultRate}, src : {None, Some("u1")}]

PageInit ==
    /\ ServerInit
    /\ attached = Some("a")
    /\ inbox = <<>>
    /\ lastMut = [r \in RoomIds |-> 0]
    /\ lostSince = FALSE
    /\ held = <<>>
    /\ observed = <<>>
    /\ \E initialSrc \in BOOLEAN, allowed \in BOOLEAN :
          page = MountedPage("a", initialSrc, allowed)
    /\ MeshIdle

\* a room's source, once set, stays set
SrcKept(s) ==
    (page.stateRef # None /\ Truthy(The(page.stateRef).src)) => Truthy(s.src)

PageNext ==
    \/ \E s \in PageStateMsgs : SrcKept(s) /\ OnState(s) /\ Sent
    \/ \E users \in PresenceMsgs : OnPresence(users) /\ Sent
    \/ DriftTick
    \/ tryAuto
    \/ Gesture
    \/ Tick(TickMs, 2 * TickMs)

SpecPage == PageInit /\ [][PageNext]_vars

\* C25: on a page that is not the host and has a timeline and a video element,
\* the drift loop is running, whether the element was there from the first
\* render or came with a later one.
C25_DriftLoopRuns ==
    (~IsHost(page) /\ page.stateRef # None /\ page.player) => page.driftLoop

\* C29: once the join-time auto-start has started playback it is disarmed, and
\* it stays disarmed.
C29_FiredStaysDisarmed ==
    page.fired => ~page.armed

(***************************************************************************)
(* SpecHost: the page of connection a, its host's controls and the         *)
(* messages the host effect sends                                          *)
(***************************************************************************)
MaxEvents == 4                          \* presences and uses of the controls
StepMs    == SeekDebounceMs \div 2      \* time passes in steps of 60 ms
HostLimit == MaxTicks * SeekDebounceMs

\* an event of the host specification
Evented ==
    /\ msgs < MaxEvents
    /\ msgs' = msgs + 1
    /\ UNCHANGED <<rooms, conn, sioRooms, timers, now, out, joinOrder>>

HostNext ==
    \/ \E users \in PresenceMsgs :
          ~page.unmounted /\ OnPresence(users) /\ Evented
          /\ UNCHANGED <<attached, inbox, lastMut, lostSince, held, observed,
                         meshVars>>
    \/ \E pos \in {2 * Second, 9 * Second} : UserSeek(pos) /\ Evented
    \/ \E r \in {One, 2 * One} : UserRate(r) /\ Evented
    \/ UserToggle /\ Evented
    \/ SeekTimerFire /\ UNCHANGED serverVars
    \/ RateTimerFire /\ UNCHANGED serverVars
    \/ PageUnmount /\ UNCHANGED serverVars
    \/ TickPage(StepMs, HostLimit)

SpecHost == ClientInit /\ [][HostNext]_vars

\* the messages of one kind the step that ends has sent
SentNow(ev) == {m \in page'.sent : m.ev = ev}

\* C30: on the host, a seek message is sent only 120 ms after the last seeked
\* event, with no message for the events before it in the burst, and carries
\* the position the element has when it is sent; a rate message likewise, 150 ms
\* after the last ratechange event. While an event awaits its message a timeout
\* for it is pending, and no seek or rate message is sent once the page is no
\* longer host or has been left.
C30_DebouncedEmits ==
    /\ [][(\A m \in SentNow("seek") :
               /\ page.seekEvt = Some(perfNow - SeekDebounceMs)
               /\ m.data = page.video.currentTime
               /\ IsHost(page') /\ ~page'.unmounted)
           /\
           (\A k \in SentNow("rate") :
               /\ page.rateEvt = Some(perfNow - RateDebounceMs)
               /\ k.data = page.video.playbackRate
               /\ IsHost(page') /\ ~page'.unmounted)
         ]_vars
    /\ [](/\ page.seekEvt # None
              => The(page.seekEvt) + SeekDebounceMs \in page.pendingSeek
          /\ page.rateEvt # None
              => The(page.rateEvt) + RateDebounceMs \in page.pendingRate
          /\ (~IsHost(page) \/ page.unmounted)
              => page.pendingSeek \cup page.pendingRate = {})

\* C30 witness: the host moved the position twice within 120 ms while the
\* element was playing, and one seek message has just been sent, 120 ms after
\* the second move, with the position of that moment.
C30_Witness ==
    /\ \E m \in page.sent : m.ev = "seek" /\ m.data = page.video.currentTime
                              /\ m.data \notin {2 * Second, 9 * Second}
    /\ perfNow = 3 * StepMs
    /\ msgs = 4
    /\ page.pendingSeek = {}

(***************************************************************************)
(* SpecSkew: a page whose clock is behind the server's, and its pongs      *)
(***************************************************************************)
MaxSamples == 21       \* pongs the page takes

\* the server's clock minus the browser's, in ms
Offsets == {750}

\* one-way delays of a probe, the same in both directions, in ms
Delays  == {0, TickMs \div 4, TickMs}

SkewInit ==
    /\ ServerInit
    /\ attached = Some("a")
    /\ inbox = <<>>
    /\ lastMut = [r \in RoomIds |-> 0]
    /\ lostSince = FALSE
    /\ held = <<>>
    /\ observed = <<>>
    /\ \E o \in Offsets : page = [NewPage("a") EXCEPT !.clockOffset = o]
    /\ MeshIdle

\* the pong of a probe arrives: the page sent it d ms before the server answered
\* it, and the answer took d ms as well
PongArrives(d) ==
    /\ msgs < MaxSamples
    /\ msgs' = msgs + 1
    /\ OnPong([t0 |-> dateNow(page) - 2 * d, t1 |-> now - d])
    /\ UNCHANGED <<rooms, conn, sioRooms, timers, now, out, joinOrder>>
    /\ UNCHANGED <<attached, inbox, lastMut, lostSince, held, observed, meshVars>>

SkewNext ==
    \/ \E d \in Delays : PongArrives(d)
    \/ Tick(TickMs, MaxNow)

SpecSkew == SkewInit /\ [][SkewNext]_vars

\* how far the estimate is below the true offset, in units of 1 / SkewScale ms
SkewError == page.clockOffset * SkewScale - page.skewEma

\* C11 as stated: with a true offset of +750 ms, no jitter and symmetric delay,
\* from the estimate 0, after 10 pongs the estimate is within 10 ms of 750.
C11_Within10msAfter10 ==
    (page.clockOffset = 750 /\ msgs = 10) => Abs(SkewError) <= 10 * SkewScale

\* C11 amended: under the same conditions the estimate after 10 pongs is still
\* between 80 and 81 ms short of 750 (750 * 0.8^10 = 80.5), and it is within
\* 10 ms of 750 after 20 pongs and from then on.
C11_Within10msAfter20 ==
    page.clockOffset = 750 =>
       /\ (msgs = 10) => (80 * SkewScale < SkewError /\ SkewError < 81 * SkewScale)
       /\ (msgs >= 20) => Abs(SkewError) <= 10 * SkewScale

\* C11 witness: the twentieth pong has come, its probe took 2 * TickMs both
\* ways, and the estimate is less than 10 ms below 750.
C11_Witness ==
    /\ page.clockOffset = 750 /\ msgs = 20
    /\ page.rtt = 2 * TickMs
    /\ 0 < SkewError /\ SkewError < 10 * SkewScale

(***************************************************************************)
(* SpecProbe: the page of connection a, its pings as the server answers    *)
(* them, and the pongs as the page takes them                              *)
(***************************************************************************)
\* the server's clock minus the browser's, in ms
ProbeOffsets == {0 - 500, 0, 750}

ProbeInit ==
    /\ ServerInit
    /\ attached = Some("a")
    /\ inbox = <<>>
    /\ lastMut = [r \in RoomIds |-> 0]
    /\ lostSince = FALSE
    /\ held = <<>>
    /\ observed = <<>>
    /\ \E o \in ProbeOffsets : page = [NewPage("a") EXCEPT !.clockOffset = o]
    /\ MeshIdle

\* the server handles a ping the page sent du ms ago; the pong waits in the
\* page's socket until the page takes it
ProbeNext ==
    \/ \E du \in Delays : Ping("a", dateNow(page) - du)
    \/ Receive
    \/ Tick(TickMs \div 4, 2 * TickMs)

SpecProbe == ProbeInit /\ [][ProbeNext]_vars

\* C36: the server answers a ping with a pong that carries the ping's t0 and
\* the server's clock as t1. Taking a pong at t2, the page sets rtt = t2 - t0
\* and its estimate to 0.8 * estimate + 0.2 * sample (to the unit of the
\* estimate), where sample = t1 + rtt / 2 - t2; the sample is the server's
\* clock minus the page's whenever the ping and the pong took equally long.
C36_ProbeAndSample ==
    [][/\ \A du \in Delays :
             Ping("a", dateNow(page) - du)
             => out' = <<ToSocket("ping", "a", "pong",
                                  [t0 |-> dateNow(page) - du, t1 |-> now])>>
       /\ (Receive /\ Head(inbox).ev = "pong")
          => LET p      == Head(inbox).data
                 t2     == dateNow(page)
                 rtt    == t2 - p.t0
                 sample == (p.t1 - t2) * SkewScale + (rtt * SkewScale) \div 2
                 up     == p.t1 - (p.t0 + page.clockOffset)
                 down   == now - p.t1
             IN  /\ page'.rtt = rtt
                 /\ 5 * page'.skewEma <= 4 * page.skewEma + sample
                 /\ 4 * page.skewEma + sample < 5 * page'.skewEma + 5
                 /\ (up = down) => sample = page.clockOffset * SkewScale
      ]_vars

\* C36 witness: the page, 750 ms behind the server, has taken its first pong;
\* ping and pong took 250 ms each, and the estimate is a fifth of 750 ms.
C36_Witness ==
    /\ page.clockOffset = 750
    /\ msgs = 1 /\ inbox = <<>>
    /\ page.rtt = 2 * (TickMs \div 4)
    /\ page.skewEma = (750 * SkewScale) \div 5

(***************************************************************************)
(* SpecMesh: two clients whose strips negotiate a link with each other     *)
(***************************************************************************)
MaxIce == 1            \* candidates a client sends after setting a local description
MaxFails == 1          \* links of a client that fail

\* socket.emit('rtc:join'), as the relay handles it
RelayJoin(p) ==
    /\ rtcRoster' = rtcRoster \cup {p}
    /\ wire' = LET w == Send(wire, p, Msg("peers", p, rtcRoster \cup {p}))
               IN  IF Other(p) \in rtcRoster
                   THEN Send(w, Other(p), Msg("peer-joined", p, {}))
                   ELSE w

\* navigator.mediaDevices.getUserMedia settles, and start() goes on
GumResolve(p, ok) ==
    /\ comp[p].gum = "pending"
    /\ IF ~ok
       THEN /\ comp' = [comp EXCEPT ![p].gum = "done"]
            /\ UNCHANGED <<wire, rtcRoster>>
       ELSE IF comp[p].aborted
       THEN /\ comp' = [comp EXCEPT ![p].gum = "done", ![p].tracksLive = TRUE]
            /\ UNCHANGED <<wire, rtcRoster>>
       ELSE /\ comp' = [comp EXCEPT ![p].gum = "done", ![p].tracksLive = TRUE,
                                    ![p].localStream = TRUE,
                                    \* a new MediaStreamTrack is enabled
                                    ![p].trackEnabled = TRUE]
            /\ RelayJoin(p)
    /\ UNCHANGED pcs
    /\ MeshStep

\* the page is left: the cleanups of the strip's effects and of the page's
\* socket effect run
Unmount(p) ==
    /\ comp[p].mounted
    /\ LET c == comp[p]
       IN  comp' = [comp EXCEPT ![p] =
                       [c EXCEPT !.mounted = FALSE, !.aborted = TRUE,
                                 !.tracksLive = IF c.localStream THEN FALSE ELSE @,
                                 !.localStream = FALSE,
                                 !.peerIds = {},
                                 !.pingIv = FALSE, !.bitrateIv = FALSE,
                                 !.socket = "closed"]]
    /\ pcs' = [pcs EXCEPT ![p] = None]
    /\ rtcRoster' = rtcRoster \ {p}
    /\ wire' = LET w == [wire EXCEPT ![p] = <<>>]
               IN  IF p \in rtcRoster
                   THEN Send(w, Other(p), Msg("peer-left", p, {}))
                   ELSE w
    /\ MeshStep

Next1(p, type) ==
    /\ comp[p].mounted
    /\ wire[p] # <<>>
    /\ Head(wire[p]).type = type
    /\ wire' = [wire EXCEPT ![p] = Tail(@)]

\* handlePeers and handlePeerJoined
RecvRoster(p) ==
    /\ \/ Next1(p, "peers") \/ Next1(p, "peer-joined")
    /\ LET m     == Head(wire[p])
           known == IF m.type = "peers" THEN m.peers \ {p} ELSE {m.from} \ {p}
       IN  pcs' = IF known # {} /\ ~HasPc(p)
                  THEN [pcs EXCEPT ![p] = Some(createPeerConnection(p, Other(p)))]
                  ELSE pcs
    /\ UNCHANGED <<comp, rtcRoster>>
    /\ MeshStep

\* handlePeerLeft
RecvPeerLeft(p) ==
    /\ Next1(p, "peer-left")
    /\ pcs' = [pcs EXCEPT ![p] = None]
    /\ comp' = IF HasPc(p)
               THEN [comp EXCEPT ![p] = dropPeer(@, Head(wire[p]).from)]
               ELSE comp
    /\ UNCHANGED rtcRoster
    /\ MeshStep

\* pc.onconnectionstatechange with the state failed, closed or disconnected,
\* which a connection can reach once it has a local description
LinkFails(p) ==
    /\ comp[p].mounted
    /\ HasPc(p) /\ Pc(p).hasLocal
    /\ comp[p].fails < MaxFails
    /\ pcs' = [pcs EXCEPT ![p] = None]
    /\ comp' = [comp EXCEPT ![p] = dropPeer([@ EXCEPT !.fails = @ + 1], Other(p))]
    /\ UNCHANGED <<wire, rtcRoster>>
    /\ MeshStep

\* document's visibilitychange event
VisibilityChange(p) ==
    /\ comp[p].mounted
    /\ comp' = [comp EXCEPT ![p].visible = ~@,
                            ![p].trackEnabled =
                                IF comp[p].localStream THEN ~comp[p].visible ELSE @]
    /\ UNCHANGED <<pcs, wire, rtcRoster>>
    /\ MeshStep

\* pc.onnegotiationneeded, up to its first await: the event comes when the
\* connection is stable, its queue is empty and transceivers of its own are
\* not negotiated
NegStart(p) ==
    /\ HasPc(p)
    /\ Pc(p).state = "stable" /\ ~Pc(p).done /\ Pc(p).chain = <<>>
    /\ pcs' = [pcs EXCEPT ![p] = Some([Pc(p) EXCEPT !.makingOffer = TRUE,
                                                     !.chain = <<"createOffer">>])]
    /\ UNCHANGED <<comp, wire, rtcRoster>>
    /\ MeshStep

\* handleOffer, up to its first await
RecvOffer(p) ==
    /\ Next1(p, "offer")
    /\ LET rec == IF HasPc(p) THEN Pc(p) ELSE createPeerConnection(p, Other(p))
           offerCollision == rec.makingOffer \/ rec.state # "stable"
       IN  pcs' = [pcs EXCEPT ![p] =
                      Some(IF offerCollision /\ ~rec.polite
                           THEN [rec EXCEPT !.discarded = 1]
                           ELSE [rec EXCEPT !.chain = Append(@, "setRemoteOffer")])]
    /\ UNCHANGED <<comp, rtcRoster>>
    /\ MeshStep

\* handleAnswer, up to its await
RecvAnswer(p) ==
    /\ Next1(p, "answer")
    /\ pcs' = IF HasPc(p)
              THEN [pcs EXCEPT ![p] =
                      Some([Pc(p) EXCEPT !.chain = Append(@, "setRemoteAnswer")])]
              ELSE pcs
    /\ UNCHANGED <<comp, rtcRoster>>
    /\ MeshStep

\* handleIce, up to its await
RecvIce(p) ==
    /\ Next1(p, "ice")
    /\ pcs' = IF HasPc(p)
              THEN [pcs EXCEPT ![p] = Some([Pc(p) EXCEPT !.chain = Append(@, "addIce")])]
              ELSE pcs
    /\ UNCHANGED <<comp, rtcRoster>>
    /\ MeshStep

\* pc.onicecandidate
IceEmit(p) ==
    /\ HasPc(p)
    /\ Pc(p).ice > 0
    /\ pcs' = [pcs EXCEPT ![p] = Some([Pc(p) EXCEPT !.ice = @ - 1])]
    /\ wire' = Send(wire, Other(p), Msg("ice", p, {}))
    /\ UNCHANGED <<comp, rtcRoster>>
    /\ MeshStep

\* The connection settles the operation at the head of its queue, and the handler
\* that awaits it goes on to its next await or to its end.  An operation that is
\* not allowed in the signaling state rejects, and the handler's catch ends it.
Exec(p) ==
    /\ HasPc(p)
    /\ Pc(p).chain # <<>>
    /\ LET rec  == [Pc(p) EXCEPT !.chain = Tail(@)]
           op   == Head(Pc(p).chain)
           st   == rec.state
           q    == Other(p)
       IN  CASE op = "createOffer" ->
                  /\ pcs' = [pcs EXCEPT ![p] = Some(
                        IF st \in {"stable", "have-local-offer"}
                        THEN [rec EXCEPT !.chain = Append(@, "setLocalOffer")]
                        ELSE [rec EXCEPT !.makingOffer = FALSE])]
                  /\ UNCHANGED wire
             [] op = "setLocalOffer" ->
                  IF st \in {"stable", "have-local-offer"}
                  THEN /\ pcs' = [pcs EXCEPT ![p] = Some(
                             [rec EXCEPT !.state = "have-local-offer",
                                         !.hasLocal = TRUE, !.ice = MaxIce,
                                         !.makingOffer = FALSE])]
                       /\ wire' = Send(wire, q, Msg("offer", p, {}))
                  ELSE /\ pcs' = [pcs EXCEPT ![p] =
                                     Some([rec EXCEPT !.makingOffer = FALSE])]
                       /\ UNCHANGED wire
             [] op = "setRemoteOffer" ->
                  /\ pcs' = [pcs EXCEPT ![p] = Some(
                        [rec EXCEPT !.state = "have-remote-offer",
                                    !.chain = Append(@, "createAnswer")])]
                  /\ UNCHANGED wire
             [] op = "createAnswer" ->
                  /\ pcs' = [pcs EXCEPT ![p] = Some(
                        IF st = "have-remote-offer"
                        THEN [rec EXCEPT !.chain = Append(@, "setLocalAnswer")]
                        ELSE rec)]
                  /\ UNCHANGED wire
             [] op = "setLocalAnswer" ->
                  IF st = "have-remote-offer"
                  THEN /\ pcs' = [pcs EXCEPT ![p] = Some(
                             [rec EXCEPT !.state = "stable", !.hasLocal = TRUE,
                                         !.ice = MaxIce])]
                       /\ wire' = Send(wire, q, Msg("answer", p, {}))
                  ELSE /\ pcs' = [pcs EXCEPT ![p] = Some(rec)]
                       /\ UNCHANGED wire
             [] op = "setRemoteAnswer" ->
                  /\ pcs' = [pcs EXCEPT ![p] = Some(
                        IF st = "have-local-offer"
                        THEN [rec EXCEPT !.state = "stable", !.done = TRUE]
                        ELSE rec)]
                  /\ UNCHANGED wire
             [] op = "addIce" ->
                  /\ pcs' = [pcs EXCEPT ![p] = Some(rec)]
                  /\ UNCHANGED wire
       \* the remote offer carries the other client's camera track
    /\ comp' = IF Head(Pc(p).chain) = "setRemoteOffer"
               THEN [comp EXCEPT ![p] = ontrack(@, Other(p))]
               ELSE comp
    /\ UNCHANGED rtcRoster
    /\ MeshStep

MeshInit ==
    /\ ServerInit
    /\ NetIdle
    /\ comp = [p \in Peers |-> NewComp]
    /\ pcs = [p \in Peers |-> None]
    /\ wire = [p \in Peers |-> <<>>]
    /\ rtcRoster = {}
    /\ glare = FALSE
    /\ StripIdle

MeshNext ==
    \/ \E p \in Peers, ok \in BOOLEAN : GumResolve(p, ok)
    \/ \E p \in Peers : Unmount(p)
    \/ \E p \in Peers : RecvRoster(p)
    \/ \E p \in Peers : RecvPeerLeft(p)
    \/ \E p \in Peers : LinkFails(p)
    \/ \E p \in Peers : VisibilityChange(p)
    \/ \E p \in Peers : NegStart(p)
    \/ \E p \in Peers : RecvOffer(p)
    \/ \E p \in Peers : RecvAnswer(p)
    \/ \E p \in Peers : RecvIce(p)
    \/ \E p \in Peers : IceEmit(p)
    \/ \E p \in Peers : Exec(p)

SpecMesh == MeshInit /\ [][MeshNext]_vars

\* nothing is pending between the two clients: both strips are up, no message is
\* on its way, no operation is queued and no negotiation is due
Quiescent ==
    \A p \in Peers :
       /\ comp[p].mounted /\ comp[p].gum = "done"
       /\ wire[p] = <<>>
       /\ HasPc(p)
       /\ Pc(p).chain = <<>> /\ Pc(p).ice = 0
       /\ ~(Pc(p).state = "stable" /\ ~Pc(p).done)

\* C4: after both clients had an offer in flight at the same time, a has
\* discarded b's offer and b has answered a's, and once nothing is pending each
\* holds its link to the other in the stable signaling state.
C4_GlareEndsStable ==
    (glare /\ Quiescent) => \A p \in Peers : Pc(p).state = "stable"

\* C5: once a client's page is left and its camera request has settled, its ping
\* and bitrate timers are stopped, it holds no peer connection and the tracks of
\* its camera are stopped.
C5_TeardownReleasesAll ==
    \A p \in Peers :
       (~comp[p].mounted /\ comp[p].gum = "done")
       => /\ ~comp[p].pingIv /\ ~comp[p].bitrateIv
          /\ ~HasPc(p)
          /\ ~comp[p].tracksLive

\* C17: while a client has its camera stream, the camera track is enabled
\* exactly when the client has at least one peer in its peer list and its page
\* is visible.
C17_TrackEnabledIffNeeded ==
    \A p \in Peers :
       comp[p].localStream
       => (comp[p].trackEnabled <=> (comp[p].peerIds # {} /\ comp[p].visible))

\* C20: an offer, an answer or a candidate that reaches a client after it has
\* torn down its link to the sender, and so has no entry for it, is dropped: no
\* link is made and nothing else changes.
C20_LateSignalDropped ==
    [][\A p \in Peers :
          (/\ ~HasPc(p) /\ comp[p].tornDown
           /\ \/ RecvOffer(p) \/ RecvAnswer(p) \/ RecvIce(p))
          => /\ pcs' = pcs
             /\ comp' = comp
             /\ wire' = [wire EXCEPT ![p] = Tail(@)]
      ]_vars


(***************************************************************************)
(* SpecBitrate: the adaptive bitrate of one video sender                   *)
(* (src/src/components/VideoStrip.tsx, lines 103-116 and 282-329).         *)
(*                                                                         *)
(* scaleResolutionDownBy is kept in units of 0.05 (ScaleOne stands for 1), *)
(* so that the steps +0.25 and -0.1 are the integers 5 and 2.  A loss      *)
(* ratio is kept in units of 1/10000.  The bitrates are exact: for every   *)
(* bitrate the ticks can reach, Math.floor(b * 0.8) and Math.floor(b *     *)
(* 1.1) in doubles are the integers (b * 8) \div 10 and (b * 11) \div 10.  *)
(***************************************************************************)
InitialBitrate == 80000
MinBitrate == 40000
MaxBitrate == 120000
ScaleOne == 20
RttLimit == 350
LossUnit == 10000

MaxFree == 8        \* ticks with freely chosen statistics
MaxRun == 32        \* further ticks that repeat the last tick's verdict

\* the statistics one tick reads from pc.getStats()
StatsInputs ==
    [totalPackets : {0, 1000}, lostPackets : {20, 21}, rttMs : {RttLimit, RttLimit + 1}]

\* ensureSenderBitrate(pc), and the sendEncodings of the sendonly transceiver
ensureSenderBitrate ==
    [maxBitrate |-> InitialBitrate, scaleResolutionDownBy |-> 2 * ScaleOne]

lossRatio(st) ==
    IF st.totalPackets > 0
    THEN Min(LossUnit \div 5, Max(0, (st.lostPackets * LossUnit) \div st.totalPackets))
    ELSE 0

lowBandwidthLossOnly(st) == lossRatio(st) > LossUnit \div 50

lowBandwidth(st) == lossRatio(st) > LossUnit \div 50 \/ st.rttMs > RttLimit

nextBrUnclamped(currentBr, low) ==
    IF low THEN (currentBr * 8) \div 10 ELSE (currentBr * 11) \div 10

nextBr(currentBr, low) ==
    IF low THEN Max(MinBitrate, (currentBr * 8) \div 10)
    ELSE Min(MaxBitrate, (currentBr * 11) \div 10)

nextScale(scale, low) ==
    IF low THEN Min(4 * ScaleOne, scale + ScaleOne \div 4)
    ELSE Max(ScaleOne, scale - ScaleOne \div 10)

\* one run of tick for the sender: it reads the statistics, computes the next
\* parameters and calls setParameters when one of the two differs
tick(st) ==
    /\ \/ mon.ticks < MaxFree
       \/ /\ mon.run < MaxRun
          /\ mon.stats # None
          /\ lowBandwidth(st) = lowBandwidth(The(mon.stats))
    /\ LET low   == lowBandwidth(st)
           br    == nextBr(enc.maxBitrate, low)
           scale == nextScale(enc.scaleResolutionDownBy, low)
           apply == br # enc.maxBitrate \/ scale # enc.scaleResolutionDownBy
       IN  /\ enc' = IF apply
                     THEN [maxBitrate |-> br, scaleResolutionDownBy |-> scale]
                     ELSE enc
           /\ mon' = [ticks   |-> Min(MaxFree, mon.ticks + 1),
                      run     |-> IF mon.stats # None
                                     /\ low = lowBandwidth(The(mon.stats))
                                  THEN mon.run + 1 ELSE 1,
                      stats   |-> Some(st),
                      applied |-> apply]
    /\ UNCHANGED <<serverVars, netVars, comp, pcs, wire, rtcRoster, glare,
                   links, lwire, lroster>>

BitrateInit ==
    /\ ServerInit
    /\ NetIdle
    /\ comp = [p \in Peers |-> NoComp]
    /\ pcs = [p \in Peers |-> None]
    /\ wire = [p \in Peers |-> <<>>]
    /\ rtcRoster = {}
    /\ glare = FALSE
    /\ links = [p \in Sockets |-> NoStrip]
    /\ lwire = [p \in Sockets |-> <<>>]
    /\ lroster = {}
    /\ enc = ensureSenderBitrate
    /\ mon = [ticks |-> 0, run |-> 0, stats |-> None, applied |-> FALSE]

BitrateNext == \E st \in StatsInputs : tick(st)

SpecBitrate == BitrateInit /\ [][BitrateNext]_vars

\* C34: from 80 kbps and downscale 2, after any sequence of ticks the target
\* bitrate is within [40000, 120000] and the downscale factor within [1, 4]
C34_EncodingWithinLimits ==
    /\ enc.maxBitrate >= 40000 /\ enc.maxBitrate <= 120000
    /\ enc.scaleResolutionDownBy >= ScaleOne
    /\ enc.scaleResolutionDownBy <= 4 * ScaleOne

\* congested ticks have moved the encoding from its initial values to the
\* floor of the bitrate and the ceiling of the downscale factor
C34_Witness ==
    /\ mon.ticks = MaxFree
    /\ mon.applied
    /\ enc.maxBitrate = 40000
    /\ enc.scaleResolutionDownBy = 4 * ScaleOne

\* the verdict of the claim, from the statistics themselves: more than 2 in
\* 100 packets lost, or a round trip of more than 350 ms
Congested(st) ==
    \/ st.totalPackets > 0 /\ 100 * st.lostPackets > 2 * st.totalPackets
    \/ st.rttMs > 350

\* the ticks it takes to walk the whole range of the downscale factor, which
\* is longer than the bitrate needs
LowTicks  == (3 * ScaleOne) \div (ScaleOne \div 4)
CalmTicks == (3 * ScaleOne) \div (ScaleOne \div 10)

TickDirection ==
    [][\A st \in StatsInputs : (mon' # mon /\ mon'.stats = Some(st)) =>
          /\ Congested(st) =>
                /\ enc'.maxBitrate = Max(40000, (enc.maxBitrate * 8) \div 10)
                /\ enc'.maxBitrate <= enc.maxBitrate
                /\ enc'.scaleResolutionDownBy >= enc.scaleResolutionDownBy
          /\ ~Congested(st) =>
                /\ enc'.maxBitrate = Min(120000, (enc.maxBitrate * 11) \div 10)
                /\ enc'.maxBitrate >= enc.maxBitrate
                /\ enc'.scaleResolutionDownBy <= enc.scaleResolutionDownBy
          /\ ~mon'.applied => enc' = enc]_vars

AtLowEnd  == enc.maxBitrate = 40000 /\ enc.scaleResolutionDownBy = 4 * ScaleOne
AtHighEnd == enc.maxBitrate = 120000 /\ enc.scaleResolutionDownBy = ScaleOne

\* C35: a tick lowers the bitrate (x0.8) exactly when the loss ratio is above
\* 2% or the round trip above 350 ms and raises it (x1.1) otherwise; ticks
\* that are all congested reach 40 kbps and downscale 4 within LowTicks ticks,
\* ticks that are all uncongested reach 120 kbps and downscale 1 within
\* CalmTicks ticks, and a tick at the end it moves towards applies no change
C35_StepsAndFixedPoints ==
    /\ TickDirection
    /\ [](\A st \in mon.stats :
            /\ (Congested(st) /\ mon.run >= LowTicks) => AtLowEnd
            /\ (~Congested(st) /\ mon.run >= CalmTicks) => AtHighEnd)
    /\ [][\A st \in StatsInputs : (mon' # mon /\ mon'.stats = Some(st)) =>
            /\ (Congested(st) /\ AtLowEnd) => (~mon'.applied /\ enc' = enc)
            /\ (~Congested(st) /\ AtHighEnd) => (~mon'.applied /\ enc' = enc)]_vars

\* after the longest walk down, from downscale 4, a further uncongested tick
\* has found the encoding at 120 kbps and downscale 1 and left it alone
C35_Witness ==
    /\ mon.stats # None /\ ~Congested(The(mon.stats))
    /\ mon.run > CalmTicks
    /\ AtHighEnd
    /\ ~mon.applied


(***************************************************************************)
(* SpecLinks: the link sets of three clients                               *)
(* (src/src/components/VideoStrip.tsx, lines 118-271).                     *)
(*                                                                         *)
(* peersRef is a map from peer id to link record.  A record keeps polite   *)
(* as createPeerConnection computed it, the number n of the link among the *)
(* links this client has had to that peer (which tells a link from its     *)
(* replacement), and whether onnegotiationneeded has sent its offer.  The  *)
(* handlers read the myId prop of the render whose effect subscribed them: *)
(* the page's myId state is '' until the render that follows the socket's  *)
(* connect event (src/src/routes/room.$id.tsx, lines 29 and 87-91).        *)
(***************************************************************************)
HasLink(c, peerId) == peerId \in DOMAIN c.peersRef

\* the links of c to peerId that c has closed
ClosedTo(c, peerId) == {x \in c.closed : x[1] = peerId}

\* createPeerConnection(peerId), up to peersRef.current.set(peerId, rec)
createLink(c, peerId) ==
    [c EXCEPT !.peersRef =
        [q \in DOMAIN @ \cup {peerId} |->
            IF q = peerId
            THEN [polite |-> polite(c.myId, peerId),
                  n |-> Cardinality(ClosedTo(c, peerId)) + 1,
                  offered |-> FALSE]
            ELSE @[q]]]

\* for (const peerId of p.peers) { if (peerId === myId) continue;
\*   if (!peersRef.current.has(peerId)) createPeerConnection(peerId) }
RECURSIVE handlePeers(_, _)
handlePeers(c, peers) ==
    IF peers = {} THEN c
    ELSE LET peerId == CHOOSE q \in peers : TRUE
             c1     == IF peerId = c.myId \/ HasLink(c, peerId) THEN c
                       ELSE createLink(c, peerId)
         IN  handlePeers(c1, peers \ {peerId})

handlePeerJoined(c, peerId) ==
    IF peerId = c.myId THEN c
    ELSE IF HasLink(c, peerId) THEN c
    ELSE createLink(c, peerId)

\* rec.pc.close(); peersRef.current.delete(peerId); setPeerIds(filter)
dropLinkKeepTile(c, peerId) ==
    [c EXCEPT !.closed = @ \cup {<<peerId, c.peersRef[peerId].n>>},
              !.peersRef = [q \in DOMAIN @ \ {peerId} |-> @[q]]]

dropLink(c, peerId) ==
    [c EXCEPT !.closed = @ \cup {<<peerId, c.peersRef[peerId].n>>},
              !.peersRef = [q \in DOMAIN @ \ {peerId} |-> @[q]],
              !.peerIds = @ \ {peerId}]

handlePeerLeft(c, peerId) ==
    IF ~HasLink(c, peerId) THEN c ELSE dropLink(c, peerId)

\* pc.onconnectionstatechange of the link to peerId
onconnectionstatechange(c, peerId, connectionState) ==
    IF connectionState \in {"failed", "closed", "disconnected"} /\ HasLink(c, peerId)
    THEN dropLink(c, peerId)
    ELSE c

\* handleOffer: the record of the sender, or a new one; unless the offer
\* collides and this side is impolite, the remote description is set and
\* pc.ontrack adds the peer to peerIds
handleOffer(c, peerId, offerCollision) ==
    LET c1 == IF HasLink(c, peerId) THEN c ELSE createLink(c, peerId)
    IN  IF offerCollision /\ ~c1.peersRef[peerId].polite THEN c1
        ELSE [c1 EXCEPT !.peerIds = @ \cup {peerId}]

\* the strip of a page whose socket is still connecting: it was rendered with
\* the socket and the myId '', the camera was granted and start() has emitted
\* rtc:join, which the socket sends once it is connected
StripMounted ==
    [NoStrip EXCEPT !.socket = "connecting", !.myId = "", !.gum = "done",
                    !.joined = TRUE]

\* the strip of a page whose socket has connected and which has rendered with
\* its id since
StripConnected(id) ==
    [StripMounted EXCEPT !.socket = "connected", !.myId = id]

MaxOffers == 2      \* offers the three clients send
MaxLeaves == 1      \* clients that unmount their strip

OffersSent == links["a"].offers + links["b"].offers + links["c"].offers
LinksFailed == links["a"].fails + links["b"].fails + links["c"].fails
StripsLeft == Cardinality({p \in Sockets : links[p].socket = "none"})

LinkOnly ==
    UNCHANGED <<serverVars, netVars, comp, pcs, wire, rtcRoster, glare, enc, mon>>

\* the relay hands a message to the socket with that id, if it is connected
LSend(w, to, m) ==
    IF links[to].socket = "connected" THEN [w EXCEPT ![to] = Append(@, m)] ELSE w

RECURSIVE LSendAll(_, _, _)
LSendAll(w, tos, m) ==
    IF tos = {} THEN w
    ELSE LET to == CHOOSE q \in tos : TRUE
         IN  LSendAll(LSend(w, to, m), tos \ {to}, m)

\* the socket's connect event: the page calls setMyId(socket.id), which the
\* strip sees at the next render; what was emitted before is sent now
SocketConnect(p) ==
    /\ links[p].socket = "connecting"
    /\ links' = [links EXCEPT ![p].socket = "connected"]
    /\ UNCHANGED <<lwire, lroster>>
    /\ LinkOnly

\* the render after setMyId: the signaling effect subscribes its handlers anew
RenderMyId(p) ==
    /\ links[p].socket = "connected"
    /\ links[p].myId = ""
    /\ links' = [links EXCEPT ![p].myId = p]
    /\ UNCHANGED <<lwire, lroster>>
    /\ LinkOnly

\* the relay handles rtc:join of p: the roster to p, a notice to the others
RelayLinkJoin(p) ==
    /\ links[p].socket = "connected"
    /\ links[p].joined
    /\ p \notin lroster
    /\ lroster' = lroster \cup {p}
    /\ lwire' = LSendAll(LSend(lwire, p, Msg("peers", p, lroster \cup {p})),
                         lroster, Msg("peer-joined", p, {}))
    /\ UNCHANGED links
    /\ LinkOnly

LNext1(p, type) ==
    /\ links[p].socket = "connected"
    /\ lwire[p] # <<>>
    /\ Head(lwire[p]).type = type
    /\ lwire' = [lwire EXCEPT ![p] = Tail(@)]

RecvPeers(p) ==
    /\ LNext1(p, "peers")
    /\ links' = [links EXCEPT ![p] = handlePeers(@, Head(lwire[p]).peers)]
    /\ UNCHANGED lroster
    /\ LinkOnly

RecvPeerJoined(p) ==
    /\ LNext1(p, "peer-joined")
    /\ links' = [links EXCEPT ![p] = handlePeerJoined(@, Head(lwire[p]).from)]
    /\ UNCHANGED lroster
    /\ LinkOnly

RecvLeft(p) ==
    /\ LNext1(p, "peer-left")
    /\ links' = [links EXCEPT ![p] = handlePeerLeft(@, Head(lwire[p]).from)]
    /\ UNCHANGED lroster
    /\ LinkOnly

RecvLinkOffer(p, offerCollision) ==
    /\ LNext1(p, "offer")
    /\ LET from == Head(lwire[p]).from
       IN  /\ offerCollision => (HasLink(links[p], from) /\ links[p].peersRef[from].offered)
           /\ links' = [links EXCEPT ![p] = handleOffer(@, from, offerCollision)]
    /\ UNCHANGED lroster
    /\ LinkOnly

\* pc.onnegotiationneeded of the link to peerId, which the transceivers added
\* at its creation cause: the offer goes to the relay, and on to peerId
SendLinkOffer(p, peerId) ==
    /\ links[p].socket = "connected"
    /\ HasLink(links[p], peerId)
    /\ ~links[p].peersRef[peerId].offered
    /\ OffersSent < MaxOffers
    /\ links' = [links EXCEPT ![p].peersRef[peerId].offered = TRUE,
                              ![p].offers = @ + 1]
    /\ lwire' = LSend(lwire, peerId, Msg("offer", p, {}))
    /\ UNCHANGED lroster
    /\ LinkOnly

\* the connection of the link to peerId changes to failed, closed or
\* disconnected
ConnectionStateChange(p, peerId, connectionState) ==
    /\ links[p].socket = "connected"
    /\ HasLink(links[p], peerId)
    /\ LinksFailed < MaxFails
    /\ links' = [links EXCEPT ![p] =
                    onconnectionstatechange([@ EXCEPT !.fails = @ + 1],
                                            peerId, connectionState)]
    /\ UNCHANGED <<lwire, lroster>>
    /\ LinkOnly

\* the strip unmounts: the cleanup closes every link, clears peersRef and
\* peerIds and emits rtc:leave, which the relay passes on as peer-left
StripLeave(p) ==
    /\ links[p].socket = "connected"
    /\ StripsLeft < MaxLeaves
    /\ LET c == links[p]
       IN  links' = [links EXCEPT ![p] =
                       [c EXCEPT !.socket = "none", !.joined = FALSE,
                                 !.closed = @ \cup {<<q, c.peersRef[q].n>> :
                                                    q \in DOMAIN c.peersRef},
                                 !.peersRef = [q \in {} |-> 0],
                                 !.peerIds = {}]]
    /\ lroster' = lroster \ {p}
    /\ lwire' = IF p \in lroster
                THEN LSendAll([lwire EXCEPT ![p] = <<>>], lroster \ {p},
                              Msg("peer-left", p, {}))
                ELSE [lwire EXCEPT ![p] = <<>>]
    /\ LinkOnly

LinksInit ==
    /\ ServerInit
    /\ NetIdle
    /\ comp = [p \in Peers |-> NoComp]
    /\ pcs = [p \in Peers |-> None]
    /\ wire = [p \in Peers |-> <<>>]
    /\ rtcRoster = {}
    /\ glare = FALSE
    /\ \E x \in Sockets :
          links = [p \in Sockets |-> IF p = x THEN StripMounted ELSE StripConnected(p)]
    /\ lwire = [p \in Sockets |-> <<>>]
    /\ lroster = {}
    /\ enc = NoEnc
    /\ mon = [ticks |-> 0, run |-> 0, stats |-> None, applied |-> FALSE]

LinksNext ==
    \/ \E p \in Sockets : SocketConnect(p)
    \/ \E p \in Sockets : RenderMyId(p)
    \/ \E p \in Sockets : RelayLinkJoin(p)
    \/ \E p \in Sockets : RecvPeers(p)
    \/ \E p \in Sockets : RecvPeerJoined(p)
    \/ \E p \in Sockets : RecvLeft(p)
    \/ \E p \in Sockets, offerCollision \in BOOLEAN : RecvLinkOffer(p, offerCollision)
    \/ \E p \in Sockets, peerId \in Sockets : SendLinkOffer(p, peerId)
    \/ \E p \in Sockets, peerId \in Sockets :
          \E st \in {"failed", "closed", "disconnected"} :
             ConnectionStateChange(p, peerId, st)
    \/ \E p \in Sockets : StripLeave(p)

SpecLinks == LinksInit /\ [][LinksNext]_vars


\* C31: of the two links that two participants hold to each other, exactly
\* one is marked polite, the one held by the participant with the greater id
C31_GreaterIdIsPolite ==
    \A x \in Sockets, y \in Sockets :
        (x # y /\ HasLink(links[x], y) /\ HasLink(links[y], x)) =>
            (links[x].peersRef[y].polite <=> Ord(x) > Ord(y))

\* the step handles a roster or a peer-joined notice at p that names ids
Discovers(p, ids) ==
    /\ links'[p].socket = "connected"
    /\ lwire[p] # <<>>
    /\ lwire'[p] = Tail(lwire[p])
    /\ \/ Head(lwire[p]).type = "peers" /\ ids = Head(lwire[p]).peers
       \/ Head(lwire[p]).type = "peer-joined" /\ ids = {Head(lwire[p]).from}

\* C32, its roster half: after a roster or a peer-joined notice the link set
\* holds one link for each remote peer id it names, and the links there were
\* before are the same links
C32_RosterAddsUnknown ==
    [][\A p \in Sockets, ids \in SUBSET Sockets :
          Discovers(p, ids) =>
             /\ DOMAIN links'[p].peersRef = DOMAIN links[p].peersRef \cup (ids \ {p})
             /\ \A q \in DOMAIN links[p].peersRef :
                   links'[p].peersRef[q] = links[p].peersRef[q]]_vars

\* C32: after a roster or a peer-joined notice the link set holds exactly one
\* link for each previously-unknown remote peer id named in it, the existing
\* links are untouched, and the set never holds a link to the own id
C32_NoLinkToSelf ==
    /\ C32_RosterAddsUnknown
    /\ [](\A p \in Sockets : ~HasLink(links[p], p))

\* the step handles a peer-left notice for q at p, or a change of the
\* connection of p's link to q to failed, closed or disconnected
Departs(p, q) ==
    \/ /\ links'[p].socket = "connected"
       /\ lwire[p] # <<>>
       /\ lwire'[p] = Tail(lwire[p])
       /\ Head(lwire[p]).type = "peer-left"
       /\ Head(lwire[p]).from = q
    \/ /\ links'[p].fails = links[p].fails + 1
       /\ HasLink(links[p], q)
       /\ ~HasLink(links'[p], q)

====
